---- MODULE Spec2Model ----
(***************************************************************************)
(* A model of agent_core/services/diagnostics.py: the diagnostics run      *)
(* (DiagnosticsService.run_diagnostics), its bounded tool-calling LLM      *)
(* session (_run_llm_session), the payload limiter, the result aggregator  *)
(* and the deterministic fallback sequence.                                *)
(*                                                                         *)
(* Python values are records tagged by t: "null", "bool", "num", "str",    *)
(* "list", "obj".  A dict read from JSON keeps its insertion order, so an  *)
(* "obj" holds a sequence kv of <<key, value>> pairs with distinct keys.   *)
(* A str is a Text: the first n characters of a source, followed by the    *)
(* chunks of truncation marker in tail (each chunk is the number of        *)
(* leading marker characters that are present).                            *)
(***************************************************************************)
EXTENDS Integers, Sequences, FiniteSets, Bags, TLC

VARIABLES
    pc,            \* position of the run_diagnostics coroutine
    service,       \* request: service name ("" is the empty name)
    cfg,           \* configuration and collaborators fixed for the run
    conn,          \* scoped MCPConnectionManager: enters, exits, open
    calls,         \* bag of the manager.call_tool invocations made so far
    chat,          \* chat_with_tools calls: count, first response, raised
    sess,          \* locals of _run_llm_session (messages, collected, ...)
    run,           \* locals of run_diagnostics (llm_collected, result, ...)
    pure           \* a helper applied on its own: its arguments and results

vars == <<pc, service, cfg, conn, calls, chat, sess, run, pure>>

----------------------------------------------------------------------------
(* Bounds of the model *)

MaxIterations == 2      \* DIAGNOSTICS_MAX_LLM_STEPS ranges over 1..MaxIterations
MaxToolCalls == 2       \* tool calls the LLM requests in one run, over all its turns

----------------------------------------------------------------------------
(* Program constants *)

TextLimit == 5000           \* _truncate_text: limit
PerContainerLimit == 2000   \* _shrink_logs_json: per_container_limit
MaxPods == 1                \* _shrink_logs_json: max_pods
MaxContainers == 1          \* _shrink_logs_json: max_containers
RenderLimit == 2000         \* _render_log_snippet: text_str[:2000]
CombinedLimit == 6000       \* _render_log_snippet: len(combined) > 6000
MarkerLen == 14             \* len("\n… (truncated)")

----------------------------------------------------------------------------
(* Python values *)

Null == [t |-> "null"]
Bool(b) == [t |-> "bool", v |-> b]
Num(n) == [t |-> "num", v |-> n]
Str(x) == [t |-> "str", s |-> x]
List(items) == [t |-> "list", items |-> items]
Obj(kv) == [t |-> "obj", kv |-> kv]

IsDict(v) == v.t = "obj"
IsStr(v) == v.t = "str"

ChunkSum(tail) ==
    LET RECURSIVE S(_)
        S(i) == IF i = 0 THEN 0 ELSE tail[i] + S(i - 1)
    IN S(Len(tail))

TextLen(x) == x.n + ChunkSum(x.tail)

\* bool(v) of Python
Truthy(v) ==
    CASE v.t = "null" -> FALSE
      [] v.t = "bool" -> v.v
      [] v.t = "num" -> v.v # 0
      [] v.t = "str" -> TextLen(v.s) > 0
      [] v.t = "list" -> Len(v.items) > 0
      [] v.t = "obj" -> Len(v.kv) > 0

\* a or b of Python
Or(a, b) == IF Truthy(a) THEN a ELSE b

\* dict operations on the ordered pairs of an "obj"
HasKey(kv, k) == \E i \in 1..Len(kv) : kv[i][1] = k

DictGet(kv, k) ==
    IF HasKey(kv, k)
    THEN kv[CHOOSE i \in 1..Len(kv) : kv[i][1] = k][2]
    ELSE Null

DictPut(kv, k, v) ==
    IF HasKey(kv, k)
    THEN [i \in 1..Len(kv) |-> IF kv[i][1] = k THEN <<k, v>> ELSE kv[i]]
    ELSE Append(kv, <<k, v>>)

\* dict.update(other): existing keys are overwritten in place, new keys appended
DictUpdate(kv, other) ==
    LET RECURSIVE U(_, _)
        U(acc, i) == IF i > Len(other) THEN acc
                     ELSE U(DictPut(acc, other[i][1], other[i][2]), i + 1)
    IN U(kv, 1)

Keys(kv) == {kv[i][1] : i \in 1..Len(kv)}

----------------------------------------------------------------------------
(* Texts *)

RawSrc(id, full) == [t |-> "raw", id |-> id, full |-> full]
Raw(id, full) == [src |-> RawSrc(id, full), n |-> full, tail |-> <<>>]
EmptyText == Raw("", 0)
\* whitespace only
Blank(full) == [src |-> [t |-> "ws", full |-> full], n |-> full, tail |-> <<>>]

\* characters that json.dumps writes for a chunk of the marker: "\n" is
\* written as two characters and the ellipsis as a six-character \u escape
EscLen(c) == c + (IF c >= 1 THEN 1 ELSE 0) + (IF c >= 2 THEN 5 ELSE 0)

RECURSIVE JsonLen(_)
JsonLen(v) ==
    CASE v.t = "null" -> 4
      [] v.t = "bool" -> IF v.v THEN 4 ELSE 5
      [] v.t = "num" -> IF v.v < 10 THEN 1 ELSE IF v.v < 100 THEN 2 ELSE 3
      [] v.t = "str" ->
            LET RECURSIVE E(_)
                E(i) == IF i = 0 THEN 0 ELSE EscLen(v.s.tail[i]) + E(i - 1)
            IN 2 + v.s.n + E(Len(v.s.tail))
      [] v.t = "list" ->
            LET RECURSIVE L(_)
                L(i) == IF i = 0 THEN 0 ELSE JsonLen(v.items[i]) + L(i - 1)
            IN 2 + L(Len(v.items))
                 + (IF Len(v.items) > 1 THEN 2 * (Len(v.items) - 1) ELSE 0)
      [] v.t = "obj" ->
            LET RECURSIVE K(_)
                K(i) == IF i = 0 THEN 0
                        ELSE Len(v.kv[i][1]) + 4 + JsonLen(v.kv[i][2]) + K(i - 1)
            IN 2 + K(Len(v.kv))
                 + (IF Len(v.kv) > 1 THEN 2 * (Len(v.kv) - 1) ELSE 0)

\* the text of a JSON document of value v, with pad characters of extra
\* whitespace relative to what json.dumps writes
JsonDoc(v, pad) ==
    [src |-> [t |-> "json", v |-> v, pad |-> pad], n |-> JsonLen(v) + pad, tail |-> <<>>]

\* json.dumps(v)
JsonDumps(v) == JsonDoc(v, 0)

SrcLen(src) ==
    CASE src.t = "json" -> JsonLen(src.v) + src.pad
      [] OTHER -> src.full

\* json.loads(x): a text is valid JSON exactly when it is a whole JSON document
JsonValid(x) == x.src.t = "json" /\ x.n = SrcLen(x.src) /\ x.tail = <<>>
JsonLoads(x) == x.src.v

\* text[:k]
TakeChunks(tail, k) ==
    LET RECURSIVE T(_, _)
        T(i, left) ==
            IF i > Len(tail) \/ left = 0 THEN <<>>
            ELSE IF tail[i] <= left THEN <<tail[i]>> \o T(i + 1, left - tail[i])
            ELSE <<left>>
    IN T(1, k)

Prefix(x, k) ==
    IF k >= TextLen(x) THEN x
    ELSE IF k <= x.n THEN [src |-> x.src, n |-> k, tail |-> <<>>]
    ELSE [src |-> x.src, n |-> x.n, tail |-> TakeChunks(x.tail, k - x.n)]

\* text + "\n… (truncated)"
WithMarker(x) == [x EXCEPT !.tail = Append(@, MarkerLen)]

\* a truncation that appends the marker without cutting the text
TruncateUncut(text, limit) ==
    IF TextLen(text) <= limit THEN text ELSE WithMarker(text)

_truncate_text(text, limit) ==
    IF TextLen(text) <= limit THEN text ELSE WithMarker(Prefix(text, limit))

----------------------------------------------------------------------------
(* Tool names: "k8s.get_logs" is <<"k8s", "get_logs">>, the segments that   *)
(* tool_name.split(".") returns; None and "" are the empty sequence.        *)

NoName == <<>>
Bare(b) == <<b>>
\* f"{server_name}.{tool_name}"
Qualified(server_name, tool_name) == <<server_name>> \o tool_name
\* tool_name.startswith(f"{server_name}.")
StartsWithServer(tool_name, server_name) ==
    Len(tool_name) > 1 /\ tool_name[1] = server_name
\* tool_name.split(".")[-1] if tool_name else tool_name
SimpleName(tool_name) ==
    IF tool_name = NoName THEN NoName ELSE <<tool_name[Len(tool_name)]>>

----------------------------------------------------------------------------
(* Outcomes of a function that may raise *)

Ok(v) == [exc |-> "none", val |-> v]
Raised(kind) == [exc |-> kind, val |-> Null]

----------------------------------------------------------------------------
(* PayloadLimiter *)

TrimContainers(kv) ==
    [i \in 1..(IF Len(kv) < MaxContainers THEN Len(kv) ELSE MaxContainers) |->
        <<kv[i][1],
          IF IsStr(kv[i][2])
          THEN Str(_truncate_text(kv[i][2].s, PerContainerLimit))
          ELSE kv[i][2]>>]

TrimPods(kv) ==
    [i \in 1..(IF Len(kv) < MaxPods THEN Len(kv) ELSE MaxPods) |->
        <<kv[i][1],
          IF IsDict(kv[i][2]) THEN Obj(TrimContainers(kv[i][2].kv)) ELSE kv[i][2]>>]

\* data.get("logs") raises AttributeError when json.loads returned a value
\* that is not a dict (a list, a number, a string, null)
_shrink_logs_json(text) ==
    LET Shrunk(data, logs) ==
            IF ~IsDict(logs) THEN Ok(_truncate_text(text, TextLimit))
            ELSE Ok(JsonDumps(Obj(DictPut(data.kv, "logs", Obj(TrimPods(logs.kv))))))
        Loaded(data) ==
            IF ~IsDict(data) THEN Raised("AttributeError")
            ELSE Shrunk(data, DictGet(data.kv, "logs"))
    IN IF ~JsonValid(text) THEN Ok(_truncate_text(text, TextLimit))
       ELSE Loaded(JsonLoads(text))

\* the text of a block or of its resource, limited
LimitText(simple_name, text) ==
    IF simple_name = Bare("get_logs")
    THEN _shrink_logs_json(text)
    ELSE Ok(_truncate_text(text, TextLimit))

LimitResource(simple_name, resource) ==
    LET Limited(r) == IF r.exc # "none" THEN r
                      ELSE Ok([resource EXCEPT !.text = Str(r.val)])
    IN IF "text" \in DOMAIN resource /\ IsStr(resource.text)
       THEN Limited(LimitText(simple_name, resource.text.s))
       ELSE Ok(resource)

\* the text of the block is limited first, then the text of its resource
LimitBlock(simple_name, block) ==
    LET has_text == "text" \in DOMAIN block /\ IsStr(block.text)
        WithResource(b1, r) ==
            IF r.exc # "none" THEN r
            ELSE IF "resource" \in DOMAIN block
                 THEN Ok([b1 EXCEPT !.resource = r.val])
                 ELSE Ok(b1)
        WithText(t) ==
            IF t.exc # "none" THEN t
            ELSE WithResource(IF has_text THEN [block EXCEPT !.text = Str(t.val)]
                              ELSE block,
                              IF "resource" \in DOMAIN block
                              THEN LimitResource(simple_name, block.resource)
                              ELSE Ok(Null))
    IN WithText(IF has_text THEN LimitText(simple_name, block.text.s) ELSE Ok(Null))

\* a result is a dict: DOMAIN result = {} is the falsy empty dict
_limit_tool_payload(tool_name, result) ==
    LET Limited(blocks) ==
            IF \E i \in 1..Len(blocks) : blocks[i].exc # "none"
            THEN Raised("AttributeError")
            ELSE Ok([result EXCEPT
                       !.content = [i \in 1..Len(blocks) |-> blocks[i].val]])
    IN IF DOMAIN result = {} \/ "content" \notin DOMAIN result THEN Ok(result)
       ELSE Limited([i \in 1..Len(result.content) |->
                        LimitBlock(SimpleName(tool_name), result.content[i])])

----------------------------------------------------------------------------
(* Text and JSON extraction from a result's content *)

\* whitespace that json.dumps(v, indent=2) adds to what json.dumps(v) writes
RECURSIVE IndentPad(_, _)
IndentPad(v, depth) ==
    CASE v.t = "obj" /\ Len(v.kv) > 0 ->
            LET RECURSIVE K(_)
                K(i) == IF i = 0 THEN 0
                        ELSE 2 * (depth + 1) - (IF i > 1 THEN 1 ELSE 0) + 1
                             + IndentPad(v.kv[i][2], depth + 1) + K(i - 1)
            IN K(Len(v.kv)) + 1 + 2 * depth
      [] v.t = "list" /\ Len(v.items) > 0 ->
            LET RECURSIVE L(_)
                L(i) == IF i = 0 THEN 0
                        ELSE 2 * (depth + 1) - (IF i > 1 THEN 1 ELSE 0) + 1
                             + IndentPad(v.items[i], depth + 1) + L(i - 1)
            IN L(Len(v.items)) + 1 + 2 * depth
      [] OTHER -> 0

\* str(v): the text itself for a str; for other values Python's repr, which
\* is the JSON text for numbers and is not JSON for None, True, False and for
\* a dict or list holding strings (single quotes)
PyStr(v) ==
    CASE v.t = "str" -> v.s
      [] v.t = "num" -> JsonDumps(v)
      [] v.t = "obj" /\ Len(v.kv) = 0 -> JsonDumps(v)
      [] v.t = "list" /\ (\A i \in 1..Len(v.items) : v.items[i].t = "num") -> JsonDumps(v)
      [] OTHER -> [src |-> [t |-> "repr", v |-> v, full |-> JsonLen(v)],
                   n |-> JsonLen(v), tail |-> <<>>]

\* "\n".join(texts)
Join(texts) ==
    IF Len(texts) = 0 THEN EmptyText
    ELSE IF Len(texts) = 1 THEN texts[1]
    ELSE LET RECURSIVE S(_)
             S(i) == IF i = 0 THEN 0 ELSE TextLen(texts[i]) + S(i - 1)
             full == S(Len(texts)) + Len(texts) - 1
         IN [src |-> [t |-> "join", parts |-> texts, full |-> full],
             n |-> full, tail |-> <<>>]

\* whitespace only (or empty)
IsBlank(x) ==
    \/ TextLen(x) = 0
    \/ x.src.t = "ws" /\ x.tail = <<>>
    \/ x.src.t = "join" /\ x.n = x.src.full /\ x.tail = <<>>
       /\ \A i \in 1..Len(x.src.parts) :
             TextLen(x.src.parts[i]) = 0 \/ x.src.parts[i].src.t = "ws"

\* text.strip(); the texts of the model carry no leading or trailing
\* whitespace unless they are whitespace only
Strip(x) == IF IsBlank(x) THEN EmptyText ELSE x

\* the texts one content block contributes
BlockTexts(block) ==
    IF "text" \in DOMAIN block THEN <<PyStr(block.text)>>
    ELSE IF "resource" \in DOMAIN block
         THEN IF "text" \in DOMAIN block.resource /\ Truthy(block.resource.text)
              THEN <<PyStr(block.resource.text)>>
              ELSE <<>>
    ELSE IF "data" \in DOMAIN block
         THEN <<JsonDoc(block.data, IndentPad(block.data, 0))>>
    ELSE <<>>

_extract_text_from_content(content) ==
    LET RECURSIVE T(_)
        T(i) == IF i > Len(content) THEN <<>> ELSE BlockTexts(content[i]) \o T(i + 1)
    IN Strip(Join(T(1)))

\* json.loads in a try: None when the text is not JSON (and for JSON null)
_try_parse_json(candidate) ==
    IF JsonValid(candidate) THEN JsonLoads(candidate) ELSE Null

\* what one block yields, Null when the loop moves on to the next block
BlockJson(block) ==
    IF "data" \in DOMAIN block /\ IsDict(block.data) THEN block.data
    ELSE LET fromResource ==
                 IF "resource" \in DOMAIN block
                 THEN IF "data" \in DOMAIN block.resource /\ IsDict(block.resource.data)
                      THEN block.resource.data
                      ELSE IF "text" \in DOMAIN block.resource /\ IsStr(block.resource.text)
                           THEN _try_parse_json(block.resource.text.s)
                           ELSE Null
                 ELSE Null
         IN IF fromResource # Null THEN fromResource
            ELSE IF "text" \in DOMAIN block /\ IsStr(block.text)
                 THEN _try_parse_json(block.text.s)
                 ELSE Null

_extract_json_from_content(content) ==
    LET RECURSIVE J(_)
        J(i) == IF i > Len(content) THEN Obj(<<>>)
                ELSE IF BlockJson(content[i]) # Null THEN BlockJson(content[i])
                ELSE J(i + 1)
    IN J(1)

----------------------------------------------------------------------------
(* ResultAggregator *)

\* collected is a dict with optional keys; an absent key is Null here
\* (no key is ever set to None by the aggregator)
EmptyCollected ==
    [logs |-> Null, resource |-> Null, events |-> Null, issue |-> Null,
     slack_result |-> Null]

\* an aggregator that leaves error-shaped results out
UpdateCollectedUnlessError(tool_name, tool_result, collected) ==
    IF DOMAIN tool_result = {} THEN collected
    ELSE IF "is_error" \in DOMAIN tool_result /\ tool_result.is_error THEN collected
    ELSE
    LET simple_name == SimpleName(tool_name)
        content == IF "content" \in DOMAIN tool_result THEN tool_result.content ELSE <<>>
        text_value == _extract_text_from_content(content)
        json_value == _extract_json_from_content(content)
    IN CASE simple_name = Bare("get_logs") ->
              LET payload == Or(json_value, Or(_try_parse_json(text_value), Str(text_value)))
                  existing == collected.logs
              IN IF IsDict(existing) /\ IsDict(payload)
                 THEN [collected EXCEPT !.logs = Obj(DictUpdate(existing.kv, payload.kv))]
                 ELSE [collected EXCEPT !.logs = payload]
         [] simple_name \in {Bare("describe_deployment"), Bare("describe_pod")} ->
              [collected EXCEPT
                 !.resource = Or(Str(text_value), Or(json_value, Str(EmptyText)))]
         [] simple_name \in {Bare("get_events"), Bare("list_events")} ->
              [collected EXCEPT
                 !.events = Or(Str(text_value), Str(JsonDumps(json_value)))]
         [] simple_name = Bare("create_issue") ->
              [collected EXCEPT
                 !.issue = Or(json_value, Or(_try_parse_json(text_value), Obj(<<>>)))]
         [] simple_name = Bare("slack_post_message") ->
              [collected EXCEPT
                 !.slack_result = Or(json_value, Or(_try_parse_json(text_value), Obj(<<>>)))]
         [] OTHER -> collected

_update_collected_from_tool(tool_name, tool_result, collected) ==
    IF DOMAIN tool_result = {} THEN collected
    ELSE
    LET simple_name == SimpleName(tool_name)
        content == IF "content" \in DOMAIN tool_result THEN tool_result.content ELSE <<>>
        text_value == _extract_text_from_content(content)
        json_value == _extract_json_from_content(content)
    IN CASE simple_name = Bare("get_logs") ->
              LET payload == Or(json_value, Or(_try_parse_json(text_value), Str(text_value)))
                  existing == collected.logs
              IN IF IsDict(existing) /\ IsDict(payload)
                 THEN [collected EXCEPT !.logs = Obj(DictUpdate(existing.kv, payload.kv))]
                 ELSE [collected EXCEPT !.logs = payload]
         [] simple_name \in {Bare("describe_deployment"), Bare("describe_pod")} ->
              [collected EXCEPT
                 !.resource = Or(Str(text_value), Or(json_value, Str(EmptyText)))]
         [] simple_name \in {Bare("get_events"), Bare("list_events")} ->
              [collected EXCEPT
                 !.events = Or(Str(text_value), Str(JsonDumps(json_value)))]
         [] simple_name = Bare("create_issue") ->
              [collected EXCEPT
                 !.issue = Or(json_value, Or(_try_parse_json(text_value), Obj(<<>>)))]
         [] simple_name = Bare("slack_post_message") ->
              [collected EXCEPT
                 !.slack_result = Or(json_value, Or(_try_parse_json(text_value), Obj(<<>>)))]
         [] OTHER -> collected

\* one "--- pod :: container ---\n<text>" or "--- pod ---\n<text>" part
SnippetPart(pod, container, v) ==
    LET body == Prefix(PyStr(v), RenderLimit)
        head == IF container = "" THEN 9 + Len(pod) ELSE 13 + Len(pod) + Len(container)
    IN [pod |-> pod, container |-> container, body |-> body,
        len |-> head + TextLen(body)]

PodParts(pod, pod_value) ==
    IF IsDict(pod_value)
    THEN [i \in 1..Len(pod_value.kv) |->
             SnippetPart(pod, pod_value.kv[i][1], pod_value.kv[i][2])]
    ELSE <<SnippetPart(pod, "", pod_value)>>

\* the rendered snippet is the text of its parts joined by "\n\n", cut to
\* 6000 characters plus "\n…" (the first two characters of the marker)
_render_log_snippet(logs_payload) ==
    IF ~Truthy(logs_payload) THEN EmptyText
    ELSE IF IsStr(logs_payload) THEN logs_payload.s
    ELSE IF ~IsDict(logs_payload) THEN PyStr(logs_payload)
    ELSE LET RECURSIVE P(_)
             P(i) == IF i > Len(logs_payload.kv) THEN <<>>
                     ELSE PodParts(logs_payload.kv[i][1], logs_payload.kv[i][2])
                          \o P(i + 1)
             snippet_parts == P(1)
             RECURSIVE S(_)
             S(i) == IF i = 0 THEN 0 ELSE snippet_parts[i].len + S(i - 1)
             full == S(Len(snippet_parts)) + 2 * (Len(snippet_parts) - 1)
             src == [t |-> "snippet", parts |-> snippet_parts, full |-> full]
         IN IF full > CombinedLimit
            THEN [src |-> src, n |-> CombinedLimit, tail |-> <<2>>]
            ELSE [src |-> src, n |-> full, tail |-> <<>>]

LogSentence == "Log excerpt collected."
ResourceSentence == "Resource description retrieved."
EventsSentence == "Recent Kubernetes events recorded."

\* " ".join(sections)
\* a fallback summary that says nothing
NoFallbackSummary(service_name, namespace, resource_type, logs, resource, events) ==
    EmptyText

_fallback_summary(service_name, namespace, resource_type, logs, resource, events) ==
    LET sections ==
            <<"Diagnostics summary for">>
            \o (IF TextLen(logs) > 0 THEN <<LogSentence>> ELSE <<>>)
            \o (IF Truthy(resource) THEN <<ResourceSentence>> ELSE <<>>)
            \o (IF Truthy(events) THEN <<EventsSentence>> ELSE <<>>)
            \o <<"Review the attached details and consider next remediation steps.">>
        RECURSIVE S(_)
        S(i) == IF i = 0 THEN 0 ELSE Len(sections[i]) + 1 + S(i - 1)
        full == S(Len(sections)) + Len(resource_type) + Len(service_name) + 4
                + (IF namespace # "" THEN Len(namespace) + 16 ELSE 0)
    IN [src |-> [t |-> "summary", sections |-> sections, full |-> full],
        n |-> full, tail |-> <<>>]

----------------------------------------------------------------------------
(* ToolCallNormalizer and the loop's helpers *)

\* a raw call is a dict with optional keys id and function; function is a
\* dict with optional keys name (a tool name) and arguments (a dict, a str
\* or None)
_normalize_tool_call(call) ==
    LET function_call ==
            IF "function" \in DOMAIN call /\ DOMAIN call.function # {}
            THEN call.function ELSE <<>>
        tool_name == IF "name" \in DOMAIN function_call
                     THEN function_call.name ELSE NoName
        raw_arguments == IF "arguments" \in DOMAIN function_call
                         THEN function_call.arguments ELSE Null
        arguments ==
            IF IsDict(raw_arguments) THEN raw_arguments
            ELSE IF IsStr(raw_arguments)
                 THEN IF TextLen(raw_arguments.s) = 0 THEN Obj(<<>>)
                      ELSE IF JsonValid(raw_arguments.s) THEN JsonLoads(raw_arguments.s)
                      ELSE Obj(<<>>)
            ELSE Obj(<<>>)
    IN [tool_name |-> tool_name, arguments |-> arguments,
        call_id |-> IF "id" \in DOMAIN call THEN call.id ELSE <<>>,
        call_dict |-> call]

\* arguments[key] = value when value is truthy and key not in arguments; on
\* a list the membership test works and the assignment raises TypeError, on
\* None, a number or a bool the membership test raises TypeError
_inject_default_arguments(arguments, namespace, resource_type, log_tail) ==
    LET defaults == << <<"namespace", Str(Raw(namespace, Len(namespace)))>>,
                       <<"resourceType", Str(Raw(resource_type, Len(resource_type)))>>,
                       <<"tail", Num(log_tail)>> >>
        wanted == {i \in 1..3 : Truthy(defaults[i][2])}
    IN CASE arguments.t = "obj" ->
              LET RECURSIVE I(_, _)
                  I(acc, i) ==
                      IF i > 3 THEN acc
                      ELSE IF i \in wanted /\ ~HasKey(acc, defaults[i][1])
                           THEN I(Append(acc, defaults[i]), i + 1)
                           ELSE I(acc, i + 1)
              IN Ok(Obj(I(arguments.kv, 1)))
         [] arguments.t = "list" ->
              IF \E i \in wanted :
                    \A j \in 1..Len(arguments.items) :
                       ~(arguments.items[j].t = "str"
                         /\ arguments.items[j].s
                               = Raw(defaults[i][1], Len(defaults[i][1])))
              THEN Raised("TypeError")
              ELSE Ok(arguments)
         [] OTHER -> IF wanted = {} THEN Ok(arguments) ELSE Raised("TypeError")

\* content is a str, a list of dict items, or anything else (None)
_coerce_content_to_text(content) ==
    IF IsStr(content) THEN content.s
    ELSE IF content.t = "list"
         THEN LET RECURSIVE F(_)
                  F(i) == IF i > Len(content.items) THEN <<>>
                          ELSE (IF Truthy(DictGet(content.items[i].kv, "text"))
                                THEN <<DictGet(content.items[i].kv, "text").s>>
                                ELSE <<>>) \o F(i + 1)
              IN Join(F(1))
    ELSE EmptyText

\* json.dumps(result, default=str): the text that holds the limited result
_serialize_tool_result(tool_result) == [dumps |-> tool_result]

----------------------------------------------------------------------------
(* ToolCatalogBuilder *)

\* sessions: a sequence of [server_name, tools]; server_name "" is None;
\* failing: the indices of the sessions whose list_tools() raises
\* catalog building that gives up at the first session whose list_tools fails
CollectStopsAtFailure(sessions, failing, allowed_tools) ==
    LET Entries(server_name, tool_name) ==
            LET qualified_name ==
                    IF server_name # "" /\ ~StartsWithServer(tool_name, server_name)
                    THEN Qualified(server_name, tool_name)
                    ELSE tool_name
            IN IF tool_name = NoName THEN <<>>
               ELSE IF allowed_tools # {}
                       /\ tool_name \notin allowed_tools
                       /\ qualified_name \notin allowed_tools
                    THEN <<>>
               ELSE <<[name |-> tool_name]>>
                    \o (IF server_name # "" /\ ~StartsWithServer(tool_name, server_name)
                        THEN <<[name |-> Qualified(server_name, tool_name)]>>
                        ELSE <<>>)
        RECURSIVE OfTools(_, _)
        OfTools(session, i) ==
            IF i > Len(session.tools) THEN <<>>
            ELSE Entries(session.server_name, session.tools[i]) \o OfTools(session, i + 1)
        RECURSIVE OfSessions(_)
        OfSessions(k) ==
            IF k > Len(sessions) \/ k \in failing THEN <<>>
            ELSE OfTools(sessions[k], 1) \o OfSessions(k + 1)
    IN OfSessions(1)

_collect_tool_definitions(sessions, failing, allowed_tools) ==
    LET Entries(server_name, tool_name) ==
            LET qualified_name ==
                    IF server_name # "" /\ ~StartsWithServer(tool_name, server_name)
                    THEN Qualified(server_name, tool_name)
                    ELSE tool_name
            IN IF tool_name = NoName THEN <<>>
               ELSE IF allowed_tools # {}
                       /\ tool_name \notin allowed_tools
                       /\ qualified_name \notin allowed_tools
                    THEN <<>>
               ELSE <<[name |-> tool_name]>>
                    \o (IF server_name # "" /\ ~StartsWithServer(tool_name, server_name)
                        THEN <<[name |-> Qualified(server_name, tool_name)]>>
                        ELSE <<>>)
        RECURSIVE OfTools(_, _)
        OfTools(session, i) ==
            IF i > Len(session.tools) THEN <<>>
            ELSE Entries(session.server_name, session.tools[i]) \o OfTools(session, i + 1)
        RECURSIVE OfSessions(_)
        OfSessions(k) ==
            IF k > Len(sessions) THEN <<>>
            ELSE (IF k \in failing THEN <<>> ELSE OfTools(sessions[k], 1))
                 \o OfSessions(k + 1)
    IN OfSessions(1)

----------------------------------------------------------------------------
(* The collaborators: configuration, backend sessions, tool results *)

\* __init__: the default allow-list
DefaultAllowedTools ==
    {Bare("get_logs"), Bare("describe_deployment"), Bare("describe_pod"),
     Bare("get_events"), Bare("list_pods"), Bare("create_issue"),
     Bare("slack_post_message")}

\* DIAGNOSTICS_ALLOWED_TOOLS is unset
AllowLists == {DefaultAllowedTools}

K8sSession ==
    [server_name |-> "k8s",
     tools |-> <<Bare("get_logs"), Bare("describe_deployment"), Bare("get_events"),
                 Bare("delete_pod")>>]
GithubSession == [server_name |-> "github", tools |-> <<Bare("create_issue")>>]
SlackSession == [server_name |-> "slack", tools |-> <<Bare("slack_post_message")>>]

\* the backends connected by connect_default_servers
SessionSets ==
    {<<K8sSession, GithubSession, SlackSession>>, <<K8sSession, SlackSession>>, <<>>}

Configs ==
    [max_llm_iterations : 1..MaxIterations,
     llm_client : BOOLEAN,
     channel : {"", "C0123"},
     github : BOOLEAN,
     sessions : SessionSets,
     allowed_tools : AllowLists,
     namespace : {"default"},
     resource_type : {"deployment"},
     log_tail : {10}]

Services == {"", "checkout-api"}

\* manager.has_tool(name): some connected session exposes the tool
has_tool(sessions, name) ==
    \E k \in 1..Len(sessions) : \E i \in 1..Len(sessions[k].tools) :
        sessions[k].tools[i] = name

\* the names call_tool can resolve: a tool of a session, bare or qualified
\* by the server that exposes it
Resolves(sessions, name) ==
    \/ has_tool(sessions, name)
    \/ \E k \in 1..Len(sessions) :
          /\ StartsWithServer(name, sessions[k].server_name)
          /\ has_tool(<<sessions[k]>>, Tail(name))

TextResult(x) == [content |-> <<[type |-> "text", text |-> Str(x)]>>, is_error |-> FALSE]

LogsOf(pod, container, id, len) ==
    Obj(<< <<"logs", Obj(<< <<pod, Obj(<< <<container, Str(Raw(id, len))>> >>)>> >>)>> >>)

\* what a tool of the backend may return
ToolResults(simple_name) ==
    CASE simple_name = Bare("get_logs") ->
            {TextResult(JsonDumps(LogsOf("pod-a", "app", "line-a", 40))),
             TextResult(JsonDumps(List(<<Num(1)>>)))}
      [] simple_name = Bare("create_issue") ->
            {TextResult(JsonDumps(Obj(<< <<"html_url", Str(Raw("https://issue/7", 15))>>,
                                         <<"number", Num(7)>> >>))),
             TextResult(JsonDumps(Obj(<< <<"number", Num(12)>> >>)))}
      [] simple_name = Bare("slack_post_message") ->
            {TextResult(JsonDumps(Obj(<< <<"ok", Bool(TRUE)>> >>))),
             TextResult(Raw("Message posted", 14))}
      [] simple_name = Bare("describe_deployment") -> {TextResult(Raw("description", 11))}
      [] simple_name = Bare("get_events") -> {TextResult(Raw("events", 6))}
      [] OTHER -> {TextResult(Raw("done", 4))}

\* log-fetch results in the shapes a backend may use: pods under "logs"
\* (the shape _shrink_logs_json trims), pods at the top level, long texts
LogResults ==
    {TextResult(JsonDumps(LogsOf("pod-a", "app", "line-a", 40))),
     TextResult(JsonDumps(LogsOf("pod-b", "app", "line-b", 40))),
     TextResult(JsonDumps(LogsOf("pod-a", "app", "line-c", 2500))),
     TextResult(JsonDumps(Obj(<< <<"pod-a", Obj(<< <<"app", Str(Raw("line-a", 40))>> >>)>> >>))),
     TextResult(JsonDumps(Obj(<< <<"pod-b", Obj(<< <<"app", Str(Raw("line-b", 40))>> >>)>> >>))),
     TextResult(JsonDumps(Obj(<< <<"pod-a", Obj(<< <<"app", Str(Raw("line-d", 40))>> >>)>> >>))),
     TextResult(Raw("plain log lines", 15))}

\* the results of the backend in a world: "logs" is a backend with the
\* log-fetch results above
ResultsIn(world, simple_name) ==
    IF world = "logs" /\ simple_name = Bare("get_logs")
    THEN LogResults
    ELSE ToolResults(simple_name)

\* how one manager.call_tool(name, arguments) may end
CallOutcomesIn(world, sessions, name) ==
    {[exc |-> "ValueError", val |-> <<>>], [exc |-> "RuntimeError", val |-> <<>>]}
    \cup (IF Resolves(sessions, name)
          THEN {[exc |-> "none", val |-> r] : r \in ResultsIn(world, SimpleName(name))}
          ELSE {})

CallOutcomes(sessions, name) == CallOutcomesIn("any", sessions, name)

\* len(".".join(name))
NameLen(name) ==
    LET RECURSIVE S(_)
        S(i) == IF i = 0 THEN 0 ELSE Len(name[i]) + 1 + S(i - 1)
    IN IF name = NoName THEN 0 ELSE S(Len(name)) - 1

\* a failure reported as an ordinary result
ErrorResultUnflagged(name, exc) ==
    [content |-> <<[type |-> "text", text |-> Str(Raw("done", 4))]>>, is_error |-> FALSE]

\* the synthesized error result, its text f"Tool {name} execution failed: {exc}"
\* (the exception's message is taken to be ten characters long)
ErrorResult(name, exc) ==
    [content |-> <<[type |-> "text",
                    text |-> Str([src |-> [t |-> "error", tool |-> name, exc |-> exc,
                                           full |-> NameLen(name) + 34],
                                  n |-> NameLen(name) + 34, tail |-> <<>>])]>>,
     is_error |-> TRUE]

\* the raw tool calls an LLM turn may carry
GoodArguments == Obj(<<>>)
LLMToolNames ==
    {Bare("get_logs"), Qualified("k8s", Bare("get_logs")), Bare("create_issue"),
     Bare("delete_pod"), Bare("describe_deployment"), Bare("get_events")}
RawCalls ==
    {[function |-> [name |-> n, arguments |-> GoodArguments]] : n \in LLMToolNames}
    \cup {[function |-> [name |-> Bare("get_logs"),
                         arguments |-> Str(JsonDumps(List(<<Num(1)>>)))]],
          [function |-> <<>>]}
LogRawCalls ==
    {[function |-> [name |-> Bare("get_logs"), arguments |-> GoodArguments]]}

\* the raw calls of one turn, at most limit of them, with the identifiers
\* call_1, call_2, ...
CallId(i) == <<"call", i>>
TurnCalls(raw_calls, limit) ==
    UNION {[1..k -> raw_calls] : k \in 0..limit}
WithIds(raw_tool_calls) ==
    [i \in 1..Len(raw_tool_calls) |->
        [id |-> CallId(i), function |-> raw_tool_calls[i].function]]

Contents ==
    {Str(EmptyText), Str(Raw("All pods are healthy.", 21)),
     List(<<Obj(<< <<"type", Str(Raw("text", 4))>>, <<"text", Str(Raw("part one", 8))>> >>),
            Obj(<< <<"type", Str(Raw("text", 4))>>, <<"text", Str(Raw("part two", 8))>> >>)>>)}

----------------------------------------------------------------------------
(* State *)

NoSession ==
    [messages |-> <<>>, collected |-> EmptyCollected, summary_text |-> EmptyText,
     iteration |-> 0, pending |-> <<>>, first_exc |-> "none"]

EmptyResult ==
    [issue_url |-> Str(EmptyText), issue_number |-> Num(0), slack_result |-> Obj(<<>>),
     log_snippet |-> EmptyText, resource_description |-> Str(EmptyText),
     events_summary |-> Str(EmptyText), summary |-> EmptyText]

NoRun ==
    [summary_text |-> EmptyText, llm_collected |-> EmptyCollected,
     llm_outcome |-> "none", llm_summary |-> EmptyText, log_snippet |-> EmptyText,
     resource_description |-> Str(EmptyText), events_summary |-> Str(EmptyText),
     result |-> EmptyResult, error |-> "none", catalog |-> "none"]

\* no helper is applied on its own during a run
NoPure == [f |-> "none"]

Init ==
    /\ pc = "start"
    /\ service \in Services
    /\ cfg \in Configs
    /\ conn = [enters |-> 0, exits |-> 0, open |-> FALSE]
    /\ calls = EmptyBag
    /\ chat = [n |-> 0, raised |-> FALSE, first |-> Null, every_turn_called |-> TRUE,
               appended |-> 0,
               requested |-> 0]
    /\ sess = NoSession
    /\ run = NoRun
    /\ pure = NoPure

\* one manager.call_tool invocation, as the bag records it
Invocation(by, name, outcome) == [by |-> by, name |-> name, ok |-> outcome.exc = "none"]
Record(bag, invocations) ==
    LET RECURSIVE R(_, _)
        R(b, i) == IF i > Len(invocations) THEN b
                   ELSE R(b (+) SetToBag({invocations[i]}), i + 1)
    IN R(bag, 1)

\* an exception that leaves run_diagnostics without exiting the manager
EscapeLeavesOpen(kind) ==
    /\ pc' = "raised"
    /\ run' = [run EXCEPT !.error = kind]
    /\ conn' = conn

\* an exception leaves run_diagnostics: the async with block exits the manager
Escape(kind) ==
    /\ pc' = "raised"
    /\ run' = [run EXCEPT !.error = kind]
    /\ conn' = IF conn.open
               THEN [conn EXCEPT !.exits = @ + 1, !.open = FALSE]
               ELSE conn

----------------------------------------------------------------------------
(* run_diagnostics: validation and connection *)

\* a run that does not look at the service name
ValidateUnchecked ==
    /\ pc = "start"
    /\ pc' = "enter"
    /\ run' = [run EXCEPT !.result = EmptyResult]
    /\ UNCHANGED <<service, cfg, pure, conn, calls, chat, sess>>

\* if not service: raise ValueError(...); else the result record is built
Validate ==
    /\ pc = "start"
    /\ IF service = ""
       THEN Escape("ValueError")
       ELSE /\ pc' = "enter"
            /\ run' = [run EXCEPT !.result = EmptyResult]
            /\ UNCHANGED conn
    /\ UNCHANGED <<service, cfg, pure, calls, chat, sess>>

\* async with MCPConnectionManager() as manager: connect_default_servers()
Enter ==
    /\ pc = "enter"
    /\ conn' = [conn EXCEPT !.enters = @ + 1, !.open = TRUE]
    /\ pc' = IF cfg.llm_client THEN "llm_tools" ELSE "fb_logs"
    /\ UNCHANGED <<service, cfg, pure, calls, chat, sess, run>>

----------------------------------------------------------------------------
(* _run_llm_session *)

\* the session raised: run_diagnostics logs it and goes on with
\* summary_text = "" and llm_collected = {}
\* a session that hands over what it had collected when it raises
SessionRaisesKeeping ==
    /\ pc' = "fb_logs"
    /\ sess' = NoSession
    /\ run' = [run EXCEPT !.llm_outcome = "raised", !.llm_collected = sess.collected]

SessionRaises ==
    /\ pc' = "fb_logs"
    /\ sess' = NoSession
    /\ run' = [run EXCEPT !.llm_outcome = "raised"]

\* return {"summary": ..., "collected": ...} and the two assignments of
\* run_diagnostics that read it
SessionReturns(summary_text, collected) ==
    /\ pc' = "fb_logs"
    /\ sess' = NoSession
    /\ run' = [run EXCEPT !.llm_outcome = "returned",
                          !.llm_summary = summary_text,
                          !.summary_text = summary_text,
                          !.llm_collected = collected]

LLMCollectTools ==
    /\ pc = "llm_tools"
    /\ \E failing \in SUBSET (1..Len(cfg.sessions)) :
          LET tools == _collect_tool_definitions(cfg.sessions, failing, cfg.allowed_tools)
          IN IF tools = <<>>
             THEN /\ pc' = "fb_logs"
                  /\ sess' = NoSession
                  /\ run' = [run EXCEPT !.llm_outcome = "raised", !.catalog = "empty"]
             ELSE /\ pc' = "llm_chat"
                  /\ sess' = [NoSession EXCEPT
                                !.messages = <<[role |-> "system"], [role |-> "user"]>>]
                  /\ run' = [run EXCEPT !.catalog = "built"]
    /\ UNCHANGED <<service, cfg, pure, conn, calls, chat>>

\* the assistant message of a turn, <<>> when the turn is dropped
AssistantMessages(assistant_content_raw, assistant_text, normalized_calls) ==
    LET content == IF assistant_content_raw.t = "list" THEN assistant_content_raw
                   ELSE IF TextLen(assistant_text) > 0 THEN Str(assistant_text)
                   ELSE Null
        tool_calls == [i \in 1..Len(normalized_calls) |-> normalized_calls[i].call_dict]
    IN IF Truthy(content) \/ Len(tool_calls) > 0
       THEN <<[role |-> "assistant", content |-> content, tool_calls |-> tool_calls]>>
       ELSE <<>>

\* a loop without the break
TurnNeverEnds(normalized_calls) == FALSE

\* if not normalized_calls: summary_text = assistant_text; break
TurnEnds(normalized_calls) == normalized_calls = <<>>

\* one pass through the head of the for loop: chat_with_tools and the
\* handling of its response up to the loop over the normalized calls; the
\* turn's tool calls are drawn from raw_calls
LLMChatWith(contents, raw_calls) ==
    /\ pc = "llm_chat"
    /\ sess.iteration < cfg.max_llm_iterations
    /\ \/ \* chat_with_tools raises, or returns something that is no mapping
          /\ chat' = [chat EXCEPT !.n = @ + 1, !.raised = TRUE]
          /\ SessionRaises
       \/ \E assistant_content_raw \in contents,
             raw \in TurnCalls(raw_calls, MaxToolCalls - chat.requested) :
             LET raw_tool_calls == WithIds(raw)
                 assistant_text == _coerce_content_to_text(assistant_content_raw)
                 normalized_calls == [i \in 1..Len(raw_tool_calls) |->
                                         _normalize_tool_call(raw_tool_calls[i])]
                 messages == sess.messages
                             \o AssistantMessages(assistant_content_raw, assistant_text,
                                                  normalized_calls)
             IN /\ chat' = [chat EXCEPT
                              !.n = @ + 1,
                              !.first = IF chat.n = 0
                                        THEN [content |-> assistant_content_raw,
                                              tool_calls |-> Len(raw_tool_calls)]
                                        ELSE @,
                              !.every_turn_called = @ /\ Len(raw_tool_calls) > 0,
                              !.appended = @ + Len(messages) - Len(sess.messages),
                              !.requested = @ + Len(raw_tool_calls)]
                /\ IF TurnEnds(normalized_calls)
                   THEN SessionReturns(assistant_text, sess.collected)
                   ELSE /\ pc' = "llm_exec"
                        /\ sess' = [sess EXCEPT !.messages = messages,
                                                !.pending = normalized_calls]
                        /\ UNCHANGED run
    /\ UNCHANGED <<service, cfg, pure, conn, calls>>

LLMChatOver(raw_calls) == LLMChatWith(Contents, raw_calls)

LLMChat == LLMChatOver(RawCalls)

\* the try/except around manager.call_tool in the loop: first is how the
\* call with the requested name ends, second how the retry with the
\* unqualified name ends (when there is one)
\* a retry after any exception of the first call_tool
RetryOnAnyFailure(sessions, tool_name, first) ==
    /\ first.exc # "none"
    /\ SimpleName(tool_name) # tool_name
    /\ has_tool(sessions, SimpleName(tool_name))

\* except ValueError, and the unqualified name differs and is recognised
WillRetry(sessions, tool_name, first) ==
    /\ first.exc = "ValueError"
    /\ SimpleName(tool_name) # tool_name
    /\ has_tool(sessions, SimpleName(tool_name))

ExecuteToolCall(sessions, tool_name, first, second) ==
    LET fallback_name == SimpleName(tool_name)
    IN IF first.exc = "none"
       THEN [tool_name |-> tool_name, tool_result |-> first.val,
             invocations |-> <<Invocation("llm", tool_name, first)>>]
       ELSE IF WillRetry(sessions, tool_name, first)
            THEN [tool_name |-> IF second.exc = "none" THEN fallback_name ELSE tool_name,
                  tool_result |-> IF second.exc = "none" THEN second.val
                                  ELSE ErrorResult(fallback_name, second.exc),
                  invocations |-> <<Invocation("llm", tool_name, first),
                                    Invocation("llm", fallback_name, second)>>]
            ELSE [tool_name |-> tool_name,
                  tool_result |-> ErrorResult(tool_name, first.exc),
                  invocations |-> <<Invocation("llm", tool_name, first)>>]

\* the for loop over normalized_calls moves on; after the last call of the
\* turn the outer loop starts its next iteration
NextCall(s) ==
    IF Len(s.pending) > 1
    THEN [s EXCEPT !.pending = Tail(@)]
    ELSE [s EXCEPT !.pending = <<>>, !.iteration = @ + 1]

\* the body of the for loop for one normalized call, with the backend of
\* a world
LLMExecCallIn(world) ==
    /\ pc = "llm_exec"
    /\ sess.pending # <<>>
    /\ LET call == Head(sess.pending)
           injected == _inject_default_arguments(call.arguments, cfg.namespace,
                                                 cfg.resource_type, cfg.log_tail)
       IN IF call.tool_name = NoName
          THEN /\ sess' = NextCall(sess)
               /\ pc' = IF Len(sess.pending) > 1 THEN "llm_exec" ELSE "llm_chat"
               /\ UNCHANGED <<calls, run>>
          ELSE IF injected.exc # "none"
          THEN SessionRaises /\ UNCHANGED calls
          ELSE \E first \in CallOutcomesIn(world, cfg.sessions, call.tool_name) :
               \E second \in (IF WillRetry(cfg.sessions, call.tool_name, first)
                              THEN CallOutcomesIn(world, cfg.sessions,
                                                  SimpleName(call.tool_name))
                              ELSE {first}) :
                  LET done == ExecuteToolCall(cfg.sessions, call.tool_name, first, second)
                      limited_result == _limit_tool_payload(done.tool_name, done.tool_result)
                  IN /\ calls' = Record(calls, done.invocations)
                     /\ IF limited_result.exc # "none"
                        THEN SessionRaises
                        ELSE /\ sess' = [NextCall(sess) EXCEPT
                                  !.first_exc = first.exc,
                                  !.collected = _update_collected_from_tool(
                                      done.tool_name, limited_result.val, sess.collected),
                                  !.messages = Append(@,
                                      [role |-> "tool", tool_call_id |-> call.call_id,
                                       name |-> done.tool_name,
                                       content |-> _serialize_tool_result(limited_result.val)])]
                             /\ pc' = IF Len(sess.pending) > 1 THEN "llm_exec" ELSE "llm_chat"
                             /\ UNCHANGED run
    /\ UNCHANGED <<service, cfg, pure, conn, chat>>

LLMExecCall == LLMExecCallIn("any")

\* range(self.max_llm_iterations) is exhausted: return with summary ""
LLMReturn ==
    /\ pc = "llm_chat"
    /\ sess.iteration >= cfg.max_llm_iterations
    /\ SessionReturns(sess.summary_text, sess.collected)
    /\ UNCHANGED <<service, cfg, pure, conn, calls, chat>>

----------------------------------------------------------------------------
(* FallbackOrchestrator *)

LogsUnavailable == Raw("Kubernetes MCP server was unavailable; no logs were captured.", 61)
LogsFailed == Raw("Failed to retrieve logs via Kubernetes MCP.", 43)
LogsNone == Raw("No logs were returned by the Kubernetes MCP server.", 51)

\* _call_tool_safe: the response, or None (falsy, here the empty dict)
_call_tool_safe(outcome) == IF outcome.exc = "none" THEN outcome.val ELSE <<>>

\* what a fallback step draws: how its one call_tool ends, when it makes one
FallbackOutcomes(invoked, name) ==
    IF invoked THEN CallOutcomes(cfg.sessions, name) ELSE {Raised("not called")}

FallbackRecord(invoked, name, outcome) ==
    IF invoked THEN Record(calls, <<Invocation("fallback", name, outcome)>>) ELSE calls

\* a log fetch that lets the exception of its call through
FetchLogSnippetUnsafe(sessions, outcome) ==
    IF ~has_tool(sessions, Bare("get_logs")) THEN Ok(LogsUnavailable)
    ELSE IF outcome.exc # "none" THEN Raised(outcome.exc)
    ELSE LET limited == _limit_tool_payload(Bare("get_logs"), outcome.val)
         IN IF limited.exc # "none" THEN limited
            ELSE Ok(_extract_text_from_content(limited.val.content))

_fetch_log_snippet(sessions, outcome) ==
    LET Snippet(text) == Ok(IF TextLen(text) > 0 THEN text ELSE LogsNone)
        OfLimited(limited) ==
            IF limited.exc # "none" THEN limited
            ELSE Snippet(_extract_text_from_content(limited.val.content))
        OfResponse(response) ==
            IF DOMAIN response = {} THEN Ok(LogsFailed)
            ELSE OfLimited(_limit_tool_payload(Bare("get_logs"), response))
    IN IF ~has_tool(sessions, Bare("get_logs")) THEN Ok(LogsUnavailable)
       ELSE OfResponse(_call_tool_safe(outcome))

\* a fallback that fetches the logs whatever the LLM path collected
LogsAlwaysMissing(log_snippet) == TRUE

\* if not log_snippet: the snippet rendered from the LLM path's logs is empty
LogsMissing(log_snippet) == TextLen(log_snippet) = 0

\* log_snippet = self._render_log_snippet(llm_collected.get("logs")), then
\* _fetch_log_snippet if that is empty
FbLogs ==
    /\ pc = "fb_logs"
    /\ \E rendered \in {_render_log_snippet(run.llm_collected.logs)} :
       \E fetch \in {LogsMissing(rendered)} :
       \E invoked \in {fetch /\ has_tool(cfg.sessions, Bare("get_logs"))} :
       \E outcome \in FallbackOutcomes(invoked, Bare("get_logs")) :
       \E fetched \in {_fetch_log_snippet(cfg.sessions, outcome)} :
          /\ calls' = FallbackRecord(invoked, Bare("get_logs"), outcome)
          /\ IF ~fetch
             THEN /\ run' = [run EXCEPT !.log_snippet = rendered]
                  /\ pc' = "fb_resource"
                  /\ UNCHANGED conn
             ELSE IF fetched.exc # "none"
             THEN Escape(fetched.exc)
             ELSE /\ run' = [run EXCEPT !.log_snippet = fetched.val]
                  /\ pc' = "fb_resource"
                  /\ UNCHANGED conn
    /\ UNCHANGED <<service, cfg, pure, chat, sess>>

\* tool_map.get(resource_type.lower()), NoName when the type is not mapped
DescribeTool(resource_type) ==
    CASE resource_type = "deployment" -> Bare("describe_deployment")
      [] resource_type = "pod" -> Bare("describe_pod")
      [] resource_type = "job" -> Bare("describe_job")
      [] OTHER -> NoName

_describe_resource(sessions, resource_type, outcome) ==
    LET tool_name == DescribeTool(resource_type) IN
    IF tool_name = NoName \/ ~has_tool(sessions, tool_name) THEN EmptyText
    ELSE LET response == _call_tool_safe(outcome) IN
         IF DOMAIN response = {} THEN EmptyText
         ELSE _extract_text_from_content(response.content)

\* resource_description = llm_collected.get("resource") or await ...
FbResource ==
    /\ pc = "fb_resource"
    /\ LET tool_name == DescribeTool(cfg.resource_type)
           invoked == /\ ~Truthy(run.llm_collected.resource)
                      /\ tool_name # NoName
                      /\ has_tool(cfg.sessions, tool_name)
       IN \E outcome \in FallbackOutcomes(invoked, tool_name) :
             /\ calls' = FallbackRecord(invoked, tool_name, outcome)
             /\ run' = [run EXCEPT !.resource_description =
                          IF Truthy(run.llm_collected.resource)
                          THEN run.llm_collected.resource
                          ELSE Str(_describe_resource(cfg.sessions, cfg.resource_type,
                                                      outcome))]
    /\ pc' = "fb_events"
    /\ UNCHANGED <<service, cfg, pure, conn, chat, sess>>

_fetch_events(sessions, outcome) ==
    IF ~has_tool(sessions, Bare("get_events")) THEN EmptyText
    ELSE LET response == _call_tool_safe(outcome) IN
         IF DOMAIN response = {} THEN EmptyText
         ELSE _extract_text_from_content(response.content)

\* events_summary = llm_collected.get("events") or await ...
FbEvents ==
    /\ pc = "fb_events"
    /\ LET invoked == /\ ~Truthy(run.llm_collected.events)
                      /\ has_tool(cfg.sessions, Bare("get_events"))
       IN \E outcome \in FallbackOutcomes(invoked, Bare("get_events")) :
             /\ calls' = FallbackRecord(invoked, Bare("get_events"), outcome)
             /\ run' = [run EXCEPT !.events_summary =
                          IF Truthy(run.llm_collected.events)
                          THEN run.llm_collected.events
                          ELSE Str(_fetch_events(cfg.sessions, outcome))]
    /\ pc' = "fb_assemble"
    /\ UNCHANGED <<service, cfg, pure, conn, chat, sess>>

\* number is an int, or a str of digits (no result of the model is one)
IssueNumber(number, current) ==
    IF number.t = "num" THEN number ELSE current

\* lines 151-169: the issue metadata of the LLM path and the summary;
\* issue_data.get raises AttributeError when the issue record is no dict
FbAssemble ==
    /\ pc = "fb_assemble"
    /\ LET issue_data == Or(run.llm_collected.issue, Obj(<<>>))
           summary_text ==
               IF TextLen(run.summary_text) = 0
               THEN _fallback_summary(service, cfg.namespace, cfg.resource_type,
                                      run.log_snippet, run.resource_description,
                                      run.events_summary)
               ELSE run.summary_text
       IN IF Truthy(issue_data) /\ ~IsDict(issue_data)
          THEN Escape("AttributeError")
          ELSE /\ run' = [run EXCEPT
                   !.summary_text = summary_text,
                   !.result.summary = summary_text,
                   !.result.issue_url =
                       IF Truthy(issue_data)
                       THEN Or(DictGet(issue_data.kv, "html_url"),
                               IF HasKey(issue_data.kv, "url")
                               THEN DictGet(issue_data.kv, "url")
                               ELSE Str(EmptyText))
                       ELSE @,
                   !.result.issue_number =
                       IF Truthy(issue_data)
                       THEN IssueNumber(DictGet(issue_data.kv, "number"), @)
                       ELSE @]
               /\ pc' = "fb_slack"
               /\ UNCHANGED conn
    /\ UNCHANGED <<service, cfg, pure, calls, chat, sess>>

\* None when nothing was posted; the parsed response when it is a dict,
\* else {"raw_response": response}
_post_slack_summary(sessions, channel, outcome) ==
    IF channel = "" THEN Null
    ELSE IF ~has_tool(sessions, Bare("slack_post_message")) THEN Null
    ELSE LET response == _call_tool_safe(outcome) IN
         IF DOMAIN response = {} THEN Null
         ELSE LET data == _extract_json_from_content(response.content)
              IN IF IsDict(data) THEN data
                 ELSE Obj(<< <<"raw_response", [t |-> "dict", d |-> response]>> >>)

\* a fallback that posts to the channel whatever the LLM path recorded
FbSlackAlways ==
    /\ pc = "fb_slack"
    /\ LET invoked == /\ cfg.channel # ""
                      /\ has_tool(cfg.sessions, Bare("slack_post_message"))
       IN \E outcome \in FallbackOutcomes(invoked, Bare("slack_post_message")) :
             /\ calls' = FallbackRecord(invoked, Bare("slack_post_message"), outcome)
             /\ run' = [run EXCEPT !.result.slack_result =
                          Or(_post_slack_summary(cfg.sessions, cfg.channel, outcome),
                             Obj(<<>>))]
    /\ pc' = "fb_issue"
    /\ UNCHANGED <<service, cfg, pure, conn, chat, sess>>

\* slack_result = llm_collected.get("slack_result"); posted by the fallback
\* only when that is None
FbSlack ==
    /\ pc = "fb_slack"
    /\ LET invoked == /\ run.llm_collected.slack_result = Null
                      /\ cfg.channel # ""
                      /\ has_tool(cfg.sessions, Bare("slack_post_message"))
       IN \E outcome \in FallbackOutcomes(invoked, Bare("slack_post_message")) :
             LET slack_result ==
                     IF run.llm_collected.slack_result = Null
                     THEN _post_slack_summary(cfg.sessions, cfg.channel, outcome)
                     ELSE run.llm_collected.slack_result
             IN /\ calls' = FallbackRecord(invoked, Bare("slack_post_message"), outcome)
                /\ run' = [run EXCEPT !.result.slack_result = Or(slack_result, Obj(<<>>))]
    /\ pc' = "fb_issue"
    /\ UNCHANGED <<service, cfg, pure, conn, chat, sess>>

\* (issue_url or "", issue_number or 0)
_create_github_issue(sessions, github, outcome) ==
    IF ~(github /\ has_tool(sessions, Bare("create_issue")))
    THEN [issue_url |-> Str(EmptyText), issue_number |-> Num(0)]
    ELSE LET response == _call_tool_safe(outcome) IN
         IF DOMAIN response = {}
         THEN [issue_url |-> Str(EmptyText), issue_number |-> Num(0)]
         ELSE LET data == _extract_json_from_content(response.content)
              IN [issue_url |-> IF IsDict(data)
                                THEN Or(DictGet(data.kv, "html_url"), Str(EmptyText))
                                ELSE Str(EmptyText),
                  issue_number |-> IF IsDict(data)
                                   THEN Or(DictGet(data.kv, "number"), Num(0))
                                   ELSE Num(0)]

\* if not result["issue_url"]: create the issue; then lines 199-201
FbIssue ==
    /\ pc = "fb_issue"
    /\ LET create == ~Truthy(run.result.issue_url)
           invoked == create /\ cfg.github /\ has_tool(cfg.sessions, Bare("create_issue"))
       IN \E outcome \in FallbackOutcomes(invoked, Bare("create_issue")) :
             LET created == _create_github_issue(cfg.sessions, cfg.github, outcome)
             IN /\ calls' = FallbackRecord(invoked, Bare("create_issue"), outcome)
                /\ run' = [run EXCEPT
                     !.result.issue_url = IF create THEN created.issue_url ELSE @,
                     !.result.issue_number = IF create THEN created.issue_number ELSE @,
                     !.result.log_snippet = run.log_snippet,
                     !.result.resource_description = run.resource_description,
                     !.result.events_summary = run.events_summary]
    /\ pc' = "fb_exit"
    /\ UNCHANGED <<service, cfg, pure, conn, chat, sess>>

\* the async with block is left and the result is returned
Return ==
    /\ pc = "fb_exit"
    /\ conn' = [conn EXCEPT !.exits = @ + 1, !.open = FALSE]
    /\ pc' = "returned"
    /\ UNCHANGED <<service, cfg, pure, calls, chat, sess, run>>

----------------------------------------------------------------------------

Next ==
    \/ Validate
    \/ Enter
    \/ LLMCollectTools
    \/ LLMChat
    \/ LLMExecCall
    \/ LLMReturn
    \/ FbLogs
    \/ FbResource
    \/ FbEvents
    \/ FbAssemble
    \/ FbSlack
    \/ FbIssue
    \/ Return

Spec == Init /\ [][Next]_vars

----------------------------------------------------------------------------
(* The LLM session alone, of a run whose LLM only fetches logs, against a   *)
(* backend with the log-fetch results of LogResults                         *)

InitLogs ==
    /\ Init
    /\ service # ""
    /\ cfg.llm_client /\ cfg.channel # "" /\ cfg.github /\ Len(cfg.sessions) = 3

LLMChatLogs == LLMChatOver(LogRawCalls)
LLMExecCallLogs == LLMExecCallIn("logs")

NextLogs ==
    \/ Validate
    \/ Enter
    \/ LLMCollectTools
    \/ LLMChatLogs
    \/ LLMExecCallLogs
    \/ LLMReturn

SpecLogs == InitLogs /\ [][NextLogs]_vars

----------------------------------------------------------------------------
(* The LLM session with content shapes that carry no text                   *)

TurnContents ==
    Contents
    \cup {List(<<>>),
          List(<<Obj(<< <<"type", Str(Raw("text", 4))>>, <<"text", Str(EmptyText)>> >>)>>),
          Num(7)}

LLMChatTurns == LLMChatWith(TurnContents, LogRawCalls)

NextTurns ==
    \/ Validate
    \/ Enter
    \/ LLMCollectTools
    \/ LLMChatTurns
    \/ LLMExecCallLogs
    \/ LLMReturn

SpecTurns == InitLogs /\ [][NextTurns]_vars

----------------------------------------------------------------------------
(* The whole run with an LLM that requests the side effects only: the chat  *)
(* post and the issue                                                       *)

EffectRawCalls ==
    {[function |-> [name |-> n, arguments |-> GoodArguments]] :
        n \in {Bare("slack_post_message"), Bare("create_issue")}}

InitEffects ==
    /\ Init
    /\ service # ""

LLMChatEffects == LLMChatOver(EffectRawCalls)

NextEffects ==
    \/ Validate
    \/ Enter
    \/ LLMCollectTools
    \/ LLMChatEffects
    \/ LLMExecCall
    \/ LLMReturn
    \/ FbLogs
    \/ FbResource
    \/ FbEvents
    \/ FbAssemble
    \/ FbSlack
    \/ FbIssue
    \/ Return

SpecEffects == InitEffects /\ [][NextEffects]_vars

----------------------------------------------------------------------------
(* Helpers applied on their own: no run is in progress, the arguments are   *)
(* drawn by Init and the actions apply the helper to them                   *)

NoRunInProgress ==
    /\ pc = "helper"
    /\ service = ""
    /\ cfg = <<>>
    /\ conn = [enters |-> 0, exits |-> 0, open |-> FALSE]
    /\ calls = EmptyBag
    /\ chat = [n |-> 0, raised |-> FALSE, first |-> Null, every_turn_called |-> TRUE,
               appended |-> 0,
               requested |-> 0]
    /\ sess = NoSession
    /\ run = NoRun

\* the helper has not been applied yet
NotApplied == [exc |-> "not applied", val |-> Null]
Applied(outcome) == outcome.exc # "not applied"

(* _limit_tool_payload applied to a result, then to what it returned *)

LimiterNames ==
    {Bare("get_logs"), Qualified("k8s", Bare("get_logs")), Bare("describe_deployment"),
     NoName}

LimiterResults ==
    LET Resource(x) == [uri |-> "k8s://logs", text |-> Str(x)]
        ResourceResult(x) ==
            [content |-> <<[type |-> "resource", resource |-> Resource(x)]>>,
             is_error |-> FALSE]
        TwoPodLogs ==
            Obj(<< <<"logs",
                     Obj(<< <<"pod-a", Obj(<< <<"app", Str(Raw("line-a", 2500))>>,
                                              <<"sidecar", Str(Raw("line-s", 40))>> >>)>>,
                            <<"pod-b", Obj(<< <<"app", Str(Raw("line-b", 40))>> >>)>> >>)>>,
                   <<"namespace", Str(Raw("default", 7))>> >>)
        Texts ==
            {Raw("short", 5), Raw("long", 6000), Raw("edge", 5007), Raw("exact", 5000),
             JsonDumps(LogsOf("pod-a", "app", "line-c", 2500)),
             JsonDumps(LogsOf("pod-a", "app", "line-e", 2000)),
             JsonDoc(LogsOf("pod-a", "app", "line-a", 40), 3),
             JsonDumps(TwoPodLogs),
             JsonDumps(Obj(<< <<"items", Str(Raw("item", 6000))>> >>)),
             JsonDumps(Obj(<< <<"logs", Str(Raw("flat", 6000))>> >>)),
             JsonDumps(Obj(<< <<"logs", Obj(<< <<"pod-a", Str(Raw("lines", 6000))>> >>)>> >>)),
             JsonDumps(Obj(<< <<"logs", Obj(<< <<"pod-a",
                                  Obj(<< <<"app", Str(Raw("line-a", 2500))>> >>)>> >>)>>,
                              <<"events", Str(Raw("events", 6000))>> >>)),
             JsonDumps(List(<<Num(1)>>))}
    IN {TextResult(x) : x \in Texts}
       \cup {ResourceResult(x) : x \in Texts}
       \cup {[content |-> <<[type |-> "text", text |-> Str(Raw("long", 6000)),
                             resource |-> Resource(JsonDumps(TwoPodLogs))],
                            [type |-> "image", data |-> "AAAA"]>>,
              is_error |-> FALSE],
             [content |-> <<>>, is_error |-> TRUE],
             [is_error |-> TRUE],
             <<>>}

InitLimiter ==
    /\ NoRunInProgress
    /\ pure \in [f : {"_limit_tool_payload"}, tool_name : LimiterNames,
                 result : LimiterResults, once : {NotApplied}, twice : {NotApplied}]

\* limited = self._limit_tool_payload(tool_name, result)
LimitOnce ==
    /\ ~Applied(pure.once)
    /\ pure' = [pure EXCEPT !.once = _limit_tool_payload(pure.tool_name, pure.result)]
    /\ UNCHANGED <<pc, service, cfg, conn, calls, chat, sess, run>>

\* self._limit_tool_payload(tool_name, limited)
LimitAgain ==
    /\ pure.once.exc = "none"
    /\ ~Applied(pure.twice)
    /\ pure' = [pure EXCEPT !.twice = _limit_tool_payload(pure.tool_name, pure.once.val)]
    /\ UNCHANGED <<pc, service, cfg, conn, calls, chat, sess, run>>

NextLimiter ==
    \/ LimitOnce
    \/ LimitAgain

SpecLimiter == InitLimiter /\ [][NextLimiter]_vars

(* _normalize_tool_call applied to a raw call of an LLM response, then     *)
(* _inject_default_arguments applied to the arguments it returned, as the   *)
(* loop does for a call that names a tool                                   *)

\* function.arguments of a raw call: a dict, None, or a str holding
\* nothing, no JSON, or the JSON of an object, a list, null, a number
RawArguments ==
    {Obj(<<>>), Obj(<< <<"namespace", Str(Raw("prod", 4))>> >>), Null,
     Str(EmptyText), Str(Raw("{not json", 9)),
     Str(JsonDumps(Obj(<< <<"tail", Num(5)>> >>))),
     Str(JsonDumps(List(<<Num(1)>>))),
     Str(JsonDumps(List(<<Str(Raw("namespace", 9))>>))),
     Str(JsonDumps(Null)),
     Str(JsonDumps(Num(5)))}

NormalizerCalls ==
    LET functions ==
            [name : {Bare("get_logs"), Qualified("k8s", Bare("get_logs"))},
             arguments : RawArguments]
            \cup {[name |-> Bare("get_logs")], <<>>}
    IN {[id |-> CallId(1), function |-> f] : f \in functions}
       \cup {[function |-> f] : f \in functions}
       \cup {[id |-> CallId(1)]}

InitNormalizer ==
    /\ NoRunInProgress
    /\ pure \in [f : {"_normalize_tool_call"}, call : NormalizerCalls,
                 namespace : {"", "default"}, normalized : {NotApplied},
                 injected : {NotApplied}]

\* self._normalize_tool_call(call)
Normalize ==
    /\ ~Applied(pure.normalized)
    /\ pure' = [pure EXCEPT !.normalized = Ok(_normalize_tool_call(pure.call))]
    /\ UNCHANGED <<pc, service, cfg, conn, calls, chat, sess, run>>

\* if not tool_name: continue; else self._inject_default_arguments(...)
Inject ==
    /\ pure.normalized.exc = "none"
    /\ pure.normalized.val.tool_name # NoName
    /\ ~Applied(pure.injected)
    /\ pure' = [pure EXCEPT !.injected =
                   _inject_default_arguments(pure.normalized.val.arguments,
                                             pure.namespace, "deployment", 10)]
    /\ UNCHANGED <<pc, service, cfg, conn, calls, chat, sess, run>>

NextNormalizer ==
    \/ Normalize
    \/ Inject

SpecNormalizer == InitNormalizer /\ [][NextNormalizer]_vars

(* __init__ reading DIAGNOSTICS_ALLOWED_TOOLS, then                         *)
(* _collect_tool_definitions applied to the sessions of a manager           *)

\* the text of the variable, as the items between its commas: each item is
\* a tool name (NoName when there is none) with pad blanks around it
EnvItem(name, pad) == [name |-> name, pad |-> pad]
AllowedToolsEnvs ==
    {[set |-> FALSE, items |-> <<>>],
     [set |-> TRUE, items |-> <<EnvItem(NoName, 0)>>],
     [set |-> TRUE, items |-> <<EnvItem(NoName, 0), EnvItem(NoName, 0)>>],
     [set |-> TRUE, items |-> <<EnvItem(NoName, 1)>>],
     [set |-> TRUE, items |-> <<EnvItem(Bare("get_logs"), 0)>>],
     [set |-> TRUE, items |-> <<EnvItem(Qualified("k8s", Bare("get_logs")), 0)>>],
     [set |-> TRUE, items |-> <<EnvItem(Bare("get_logs"), 2),
                                EnvItem(Qualified("k8s", Bare("delete_pod")), 1),
                                EnvItem(NoName, 0)>>]}

\* __init__: if allowed_tools_env: {tool.strip() for tool in
\* allowed_tools_env.split(",") if tool.strip()}, else the default
allowed_tools(allowed_tools_env) ==
    LET items == allowed_tools_env.items
        empty_text == Len(items) = 1 /\ items[1].name = NoName /\ items[1].pad = 0
    IN IF allowed_tools_env.set /\ ~empty_text
       THEN {items[i].name : i \in {j \in 1..Len(items) : items[j].name # NoName}}
       ELSE DefaultAllowedTools

\* manager.sessions: up to two sessions, among them two that expose a tool
\* of the same name, one that exposes a tool named as another's qualified
\* name, one without a server name and one whose tool is already qualified
CatalogSessions ==
    LET pool ==
            {[server_name |-> "k8s", tools |-> <<Bare("get_logs"), Bare("delete_pod")>>],
             [server_name |-> "aux", tools |-> <<Bare("get_logs")>>],
             [server_name |-> "gw", tools |-> <<Qualified("k8s", Bare("get_logs"))>>],
             [server_name |-> "", tools |-> <<Bare("get_events"), NoName>>],
             [server_name |-> "k8s", tools |-> <<Qualified("k8s", Bare("get_logs"))>>]}
    IN {<<>>} \cup {<<a>> : a \in pool}
       \cup {pair \in pool \X pool : pair[1] # pair[2]}

InitCatalog ==
    /\ NoRunInProgress
    /\ pure \in [f : {"_collect_tool_definitions"},
                 allowed_tools_env : AllowedToolsEnvs, sessions : CatalogSessions,
                 allowed_tools : {NotApplied}, definitions : {NotApplied}]

\* DiagnosticsService()
Construct ==
    /\ ~Applied(pure.allowed_tools)
    /\ pure' = [pure EXCEPT !.allowed_tools = Ok(allowed_tools(pure.allowed_tools_env))]
    /\ UNCHANGED <<pc, service, cfg, conn, calls, chat, sess, run>>

\* tools = await self._collect_tool_definitions(manager), with the sessions
\* of failing raising in list_tools
CollectTools ==
    /\ pure.allowed_tools.exc = "none"
    /\ ~Applied(pure.definitions)
    /\ \E failing \in SUBSET (1..Len(pure.sessions)) :
          pure' = [pure EXCEPT !.definitions =
                      Ok(_collect_tool_definitions(pure.sessions, failing,
                                                   pure.allowed_tools.val))]
    /\ UNCHANGED <<pc, service, cfg, conn, calls, chat, sess, run>>

NextCatalog ==
    \/ Construct
    \/ CollectTools

SpecCatalog == InitCatalog /\ [][NextCatalog]_vars

----------------------------------------------------------------------------
(* Observations of a run *)

\* the call_tool invocations the conversation loop made
LLMCalls == {e \in BagToSet(calls) : e.by = "llm"}

\* the call_tool invocations of a tool the fallback path made
FallbackCalls(simple_name) ==
    {e \in BagToSet(calls) : e.by = "fallback" /\ e.name = simple_name}

\* how many create_issue invocations of the run succeeded
IssuesCreated ==
    LET created == {e \in BagToSet(calls) :
                      SimpleName(e.name) = Bare("create_issue") /\ e.ok}
        RECURSIVE Sum(_)
        Sum(S) == IF S = {} THEN 0
                  ELSE LET e == CHOOSE x \in S : TRUE
                       IN CopiesIn(e, calls) + Sum(S \ {e})
    IN Sum(created)

\* the conversation loop is over
SessionOver == run.llm_outcome # "none"

\* the tool messages of the transcript
ToolMessages == SelectSeq(sess.messages, LAMBDA m : m.role = "tool")

\* the logs payload of a tool message's result: its JSON, else its text
LogPayload(m) ==
    LET content == m.content.dumps.content
        text_value == _extract_text_from_content(content)
    IN Or(_extract_json_from_content(content),
          Or(_try_parse_json(text_value), Str(text_value)))

\* the pod entries of a logs payload: under "logs" when that is a dict,
\* else at the top level
PodsOf(v) ==
    IF ~IsDict(v) THEN <<>>
    ELSE IF IsDict(DictGet(v.kv, "logs")) THEN DictGet(v.kv, "logs").kv
    ELSE v.kv

\* the pod entries of the collected logs, wherever they are: under "logs"
\* and at the top level
AllPodsOf(v) ==
    IF ~IsDict(v) THEN <<>>
    ELSE IF IsDict(DictGet(v.kv, "logs")) THEN DictGet(v.kv, "logs").kv \o v.kv
    ELSE v.kv

\* the container entries of a pod
ContainersOf(v) == IF IsDict(v) THEN v.kv ELSE <<>>

----------------------------------------------------------------------------
(* Claims *)

\* C1: the loop makes at most N chat_with_tools calls, and when every LLM
\* turn carries at least one tool call it makes exactly N calls and returns
\* with an empty summary.
C1_ExactlyNTurns ==
    /\ chat.n <= cfg.max_llm_iterations
    /\ (SessionOver /\ chat.n > 0 /\ ~chat.raised /\ chat.every_turn_called)
          => /\ chat.n = cfg.max_llm_iterations
             /\ run.llm_outcome = "returned"
             /\ TextLen(run.llm_summary) = 0

\* C2: over one run, at most one create_issue invocation succeeds, counting
\* those of the conversation loop and the one of the fallback path.
C2_AtMostOneIssue == IssuesCreated <= 1

\* C3: when the evidence collected by the LLM path holds a non-empty issue
\* record, the fallback path makes no create_issue invocation.
C3_NoSecondIssue ==
    Truthy(run.llm_collected.issue) => FallbackCalls(Bare("create_issue")) = {}

\* C4: every tool name the conversation loop passes to call_tool is in the
\* allow-list, by its bare or by its qualified name.
C4_OnlyAllowedTools ==
    \A e \in LLMCalls :
        e.name \in cfg.allowed_tools \/ SimpleName(e.name) \in cfg.allowed_tools

\* C5: run_diagnostics raises only for an empty service name.
C5_RaisesOnlyOnValidation == pc = "raised" => service = ""

\* C6: with an empty service name the run fails with the validation error
\* before the connection is opened, before any completion is requested and
\* before any tool call is made.
C6_ValidationFirst ==
    service = "" =>
        /\ pc \in {"start", "raised"}
        /\ pc = "raised" => run.error = "ValueError"
        /\ conn.enters = 0
        /\ chat.n = 0
        /\ BagToSet(calls) = {}

C6_Witness == service = "" /\ pc = "raised" /\ run.error = "ValueError"

\* C7: when call_tool raises for a call of the loop (and the retry, if any,
\* raises too), no exception leaves the loop: one tool message with the
\* error-shaped result (is_error, the text of the exception) answers the
\* call, and the loop goes on with the next call or the next round-trip.
C7_StepOnFailure ==
    (/\ pc = "llm_exec"
     /\ calls' # calls
     /\ \A e \in BagToSet(calls' (-) calls) : ~e.ok)
    => /\ run'.llm_outcome = "none"
       /\ Len(sess'.messages) = Len(sess.messages) + 1
       /\ LET m == sess'.messages[Len(sess'.messages)]
              text == m.content.dumps.content[1].text.s
          IN /\ m.role = "tool"
             /\ m.tool_call_id = Head(sess.pending).call_id
             /\ m.content.dumps.is_error
             /\ text.src.t = "error"
             /\ text.src.exc \in {"ValueError", "RuntimeError"}
             /\ text.n = text.src.full /\ text.tail = <<>>
       /\ sess'.pending = Tail(sess.pending)
       /\ IF sess'.pending # <<>>
          THEN pc' = "llm_exec" /\ sess'.iteration = sess.iteration
          ELSE pc' = "llm_chat" /\ sess'.iteration = sess.iteration + 1
C7_FailureIsData == [][C7_StepOnFailure]_vars

\* a failed retry was answered by an error message and the next round-trip
\* followed
C7_Witness ==
    /\ pc = "llm_exec"
    /\ [by |-> "llm", name |-> Qualified("k8s", Bare("get_logs")), ok |-> FALSE]
          \in BagToSet(calls)
    /\ \E i \in 1..Len(sess.messages) : \E j \in (i + 1)..Len(sess.messages) :
          /\ sess.messages[i].role = "tool"
          /\ sess.messages[i].content.dumps.is_error
          /\ sess.messages[i].name = Qualified("k8s", Bare("get_logs"))
          /\ sess.messages[i].content.dumps.content[1].text.s.src.tool = Bare("get_logs")
          /\ sess.messages[j].role = "assistant"

\* C8: after two log-fetch results were folded into the collected evidence,
\* results for disjoint pods are both in the final logs, and for a
\* pod/container of both the final logs hold the later value (the two
\* results have their pods in the same place, both under "logs" or both at
\* the top level).
C8_LogMerge ==
    (/\ Len(ToolMessages) = 2
     /\ \A i \in 1..2 : IsDict(LogPayload(ToolMessages[i]))
     /\ IsDict(DictGet(LogPayload(ToolMessages[1]).kv, "logs"))
           = IsDict(DictGet(LogPayload(ToolMessages[2]).kv, "logs")))
    => LET a == PodsOf(LogPayload(ToolMessages[1]))
           b == PodsOf(LogPayload(ToolMessages[2]))
           final == AllPodsOf(sess.collected.logs)
       IN /\ Keys(a) \cap Keys(b) = {}
                => (Keys(a) \cup Keys(b)) \subseteq Keys(final)
          /\ \A pod \in Keys(a) \cap Keys(b) :
                /\ pod \in Keys(final)
                /\ \A container \in Keys(ContainersOf(DictGet(b, pod))) :
                      DictGet(ContainersOf(DictGet(final, pod)), container)
                        = DictGet(ContainersOf(DictGet(b, pod)), container)

C10_ImmediateAnswer ==
    (chat.first # Null /\ chat.first.tool_calls = 0)
    => /\ chat.n = 1
       /\ pc \notin {"llm_tools", "llm_chat", "llm_exec"}
       /\ run.llm_outcome = "returned"
       /\ LLMCalls = {}
       /\ run.llm_summary = (IF IsStr(chat.first.content)
                             THEN chat.first.content.s
                             ELSE _coerce_content_to_text(chat.first.content))
       /\ run.llm_collected = EmptyCollected

C10_Witness ==
    /\ pc = "returned"
    /\ chat.first # Null /\ chat.first.tool_calls = 0
    /\ chat.n = 1
    /\ TextLen(run.llm_summary) > 0
    /\ run.result.summary = run.llm_summary

\* C11: limiting is idempotent. Whenever _limit_tool_payload returned a
\* result and is applied to that result again under the same tool name, it
\* returns the very same result: no second truncation marker, no further
\* shrinking of the logs.
C11_LimiterIdempotent ==
    (pure.f = "_limit_tool_payload" /\ Applied(pure.twice))
        => pure.twice = pure.once

\* a log-fetch result that the first application did change (pods dropped,
\* container text cut and marked) went through the second one
C11_Witness ==
    /\ pure.f = "_limit_tool_payload"
    /\ SimpleName(pure.tool_name) = Bare("get_logs")
    /\ pure.twice.exc = "none"
    /\ pure.once.val # pure.result
    /\ \E i \in 1..Len(pure.once.val.content) :
          /\ "text" \in DOMAIN pure.once.val.content[i]
          /\ JsonValid(pure.once.val.content[i].text.s)
          /\ pure.once.val.content[i].text.s # pure.result.content[i].text.s

\* the run is over: it returned its result or an exception left it
RunOver == pc \in {"returned", "raised"}

\* C12: the connection is scoped to the run. A run that passes validation
\* enters the connection manager exactly once and, however it ends (normal
\* return, failed LLM session, exhausted budget, exception leaving the
\* body), has exited it exactly once; a rejected run never enters it; and
\* every tool call and every LLM completion happens while it is open, none
\* after the exit.
C12_EnteredOnceExitedOnce ==
    /\ conn.enters <= 1
    /\ conn.exits <= conn.enters
    /\ conn.open <=> (conn.enters = 1 /\ conn.exits = 0)
    /\ (RunOver /\ service # "") => (conn.enters = 1 /\ conn.exits = 1)
    /\ (RunOver /\ service = "") => (conn.enters = 0 /\ conn.exits = 0)

C12_NothingAfterExit ==
    /\ (calls' # calls \/ chat'.n # chat.n) => conn.open
    /\ conn.exits >= 1 => (calls' = calls /\ chat'.n = chat.n /\ conn' = conn)

C12_ScopedConnection ==
    [](C12_EnteredOnceExitedOnce) /\ [][C12_NothingAfterExit]_vars

\* an exception left the body of a validated run after tool calls were
\* made, and the connection was exited once
C12_Witness ==
    /\ pc = "raised"
    /\ service # ""
    /\ calls # EmptyBag
    /\ conn = [enters |-> 1, exits |-> 1, open |-> FALSE]

\* the fallback path called the log-fetch tool and the call raised
LogFetchRaised == \E e \in FallbackCalls(Bare("get_logs")) : ~e.ok

\* the issue URL that the LLM path's issue record carries
LLMIssueUrl ==
    LET issue == run.llm_collected.issue
    IN IF IsDict(issue) /\ Truthy(issue)
       THEN Or(DictGet(issue.kv, "html_url"), DictGet(issue.kv, "url"))
       ELSE Null

HasSentence(summary, sentence) ==
    /\ summary.src.t = "summary"
    /\ \E i \in 1..Len(summary.src.sections) : summary.src.sections[i] = sentence

\* no LLM is configured, the chat tool is available with a channel to post
\* to, the issue tool is not, and the fallback's log fetch and chat post
\* both succeeded
C14_Scenario ==
    /\ ~cfg.llm_client
    /\ ~has_tool(cfg.sessions, Bare("create_issue"))
    /\ \E e \in FallbackCalls(Bare("get_logs")) : e.ok
    /\ \E e \in FallbackCalls(Bare("slack_post_message")) : e.ok

\* C14: the fallback-only run. With no LLM configured, the log tool and the
\* chat tool available and succeeding, and the issue tool unavailable, the
\* run makes no LLM completion call and returns a result with a non-empty
\* log_snippet, an empty issue_url, a non-empty slack_result and a summary
\* that holds 'Log excerpt collected.', whatever the chat tool responded.
C14_FallbackOnlyRun ==
    (RunOver /\ C14_Scenario) =>
        /\ pc = "returned"
        /\ chat.n = 0
        /\ TextLen(run.result.log_snippet) > 0
        /\ ~Truthy(run.result.issue_url)
        /\ Truthy(run.result.slack_result)
        /\ HasSentence(run.result.summary, LogSentence)

\* once a chat_with_tools call raised, the run is on the fallback path and,
\* when it is over, it has returned its result
C15_FallbackAfterFailure ==
    chat.raised =>
        /\ pc \notin {"llm_tools", "llm_chat", "llm_exec"}
        /\ RunOver => pc = "returned"

\* C15: the LLM completion call is never retried. Once a chat_with_tools
\* call raised, no further chat_with_tools call is made in that run, and
\* the run goes on with the fallback path and returns a result.
C15_NoChatRetry ==
    [](C15_FallbackAfterFailure) /\ [][chat.raised => chat'.n = chat.n]_vars

\* the assistant message at position k of the transcript is followed by
\* one tool message per request it records, tagged with the identifiers of
\* the requests in their order, and by no other tool message
TurnAnswered(messages, k) ==
    LET tool_calls == messages[k].tool_calls
        n == Len(tool_calls)
    IN /\ k + n <= Len(messages)
       /\ \A i \in 1..n :
             /\ messages[k + i].role = "tool"
             /\ messages[k + i].tool_call_id = tool_calls[i].id
       /\ k + n + 1 <= Len(messages) => messages[k + n + 1].role # "tool"

\* C16: requests and results correspond. Whenever the loop is about to
\* call chat_with_tools, every assistant message of the transcript is
\* followed by exactly one tool message for each tool-call request it
\* records, carrying that request's call identifier, in request order.
C16_EveryRequestAnswered ==
    pc = "llm_chat" =>
        \A k \in 1..Len(sess.messages) :
           sess.messages[k].role = "assistant" => TurnAnswered(sess.messages, k)

\* the call_tool invocations of one step
NewCalls == calls' (-) calls

\* the request under execution names a tool whose unqualified name differs
\* from the requested one and is recognised by has_tool
Retriable ==
    LET tool_name == Head(sess.pending).tool_name
    IN /\ SimpleName(tool_name) # tool_name
       /\ has_tool(cfg.sessions, SimpleName(tool_name))

\* the first call_tool of the request under execution failed
FirstCallFailed ==
    BagIn([by |-> "llm", name |-> Head(sess.pending).tool_name, ok |-> FALSE], NewCalls)

\* C17 as stated: after any failure of call_tool the loop retries exactly
\* once with the unqualified name if that differs and is recognised, and
\* otherwise does not retry; no request causes more than two invocations.
C17_RetryStep ==
    (pc = "llm_exec" /\ calls' # calls) =>
        /\ BagCardinality(NewCalls) <= 2
        /\ FirstCallFailed => (BagCardinality(NewCalls) = 2 <=> Retriable)

C17_RetryOnAnyFailure == [][C17_RetryStep]_vars

\* C17, amended: the retry is for ValueError only. The loop retries exactly
\* once with the unqualified name when the first call_tool raised
\* ValueError and that name differs and is recognised; after any other
\* exception, or with no such name, it makes no second invocation and
\* appends the error-shaped result of the first failure; no request causes
\* more than two invocations.
C17_ValueErrorStep ==
    (pc = "llm_exec" /\ calls' # calls) =>
        LET tool_name == Head(sess.pending).tool_name
            retried == BagCardinality(NewCalls) = 2
            message == sess'.messages[Len(sess'.messages)]
        IN /\ BagCardinality(NewCalls) <= 2
           /\ retried => /\ FirstCallFailed
                         /\ Retriable
                         /\ \E ok \in BOOLEAN :
                               BagIn([by |-> "llm", name |-> SimpleName(tool_name),
                                      ok |-> ok], NewCalls)
           /\ pc' \in {"llm_exec", "llm_chat"} =>
                 /\ retried <=> (sess'.first_exc = "ValueError" /\ Retriable)
                 /\ (~retried /\ sess'.first_exc # "none") =>
                       message.content.dumps = ErrorResult(tool_name, sess'.first_exc)

C17_RetryOnValueError == [][C17_ValueErrorStep]_vars

\* a request for a qualified name whose unqualified name is recognised
\* failed with an exception other than ValueError and was answered with
\* the error result, without a retry
C17_Witness ==
    /\ pc \in {"llm_exec", "llm_chat"}
    /\ sess.first_exc = "RuntimeError"
    /\ Len(sess.messages) > 0
    /\ LET message == sess.messages[Len(sess.messages)]
       IN /\ message.role = "tool"
          /\ message.name = Qualified("k8s", Bare("get_logs"))
          /\ has_tool(cfg.sessions, Bare("get_logs"))
          /\ message.content.dumps.is_error
          /\ BagIn([by |-> "llm", name |-> message.name, ok |-> FALSE], calls)
          /\ ~\E e \in BagToSet(calls) : e.name = Bare("get_logs")

\* C18: the normalizer is total and its arguments are a mapping. For every
\* raw call it returns, without raising, arguments that are a mapping (a
\* mapping is passed through; an absent payload, malformed JSON and JSON of
\* a non-object give a mapping), a null tool name when the function block
\* is missing, and arguments with which the default-argument injection
\* does not raise.
C18_NormalizedArgumentsAreMapping ==
    (pure.f = "_normalize_tool_call" /\ Applied(pure.normalized)) =>
        /\ pure.normalized.exc = "none"
        /\ IsDict(pure.normalized.val.arguments)
        /\ ("function" \notin DOMAIN pure.call \/ DOMAIN pure.call.function = {})
              => pure.normalized.val.tool_name = NoName
        /\ Applied(pure.injected) => pure.injected.exc = "none"

\* the catalog has been built
CatalogBuilt == pure.f = "_collect_tool_definitions" /\ Applied(pure.definitions)

\* the definition is the bare or the qualified entry of a tool of some
\* session whose bare name or server-qualified name is in the allow-list
EntryAllowed(definition, sessions, allowed) ==
    \E k \in 1..Len(sessions) : \E j \in 1..Len(sessions[k].tools) :
        LET server_name == sessions[k].server_name
            tool_name == sessions[k].tools[j]
            qualified_name ==
                IF server_name # "" /\ ~StartsWithServer(tool_name, server_name)
                THEN Qualified(server_name, tool_name) ELSE tool_name
        IN /\ definition.name \in {tool_name, qualified_name}
           /\ tool_name \in allowed \/ qualified_name \in allowed

\* C19: no tool outside the allow-list is exposed. For every set of sessions
\* and every value of DIAGNOSTICS_ALLOWED_TOOLS, one that parses to an empty
\* set included, each definition of the catalog belongs to a tool whose
\* bare name or server-qualified name is in the allow-list.
C19_CatalogWithinAllowList ==
    CatalogBuilt =>
        \A i \in 1..Len(pure.definitions.val) :
           EntryAllowed(pure.definitions.val[i], pure.sessions, pure.allowed_tools.val)

\* C20: the catalog is deduplicated. For every set of sessions, no two
\* definitions of the catalog carry the same name.
C20_CatalogDeduplicated ==
    CatalogBuilt =>
        \A i, j \in 1..Len(pure.definitions.val) :
           i # j => pure.definitions.val[i].name # pure.definitions.val[j].name

\* the texts of a limited result: of its blocks and of their resources
LimitedTexts(result) ==
    IF DOMAIN result = {} \/ "content" \notin DOMAIN result THEN {}
    ELSE {result.content[i].text.s :
             i \in {j \in 1..Len(result.content) :
                      /\ "text" \in DOMAIN result.content[j]
                      /\ IsStr(result.content[j].text)}}
         \cup {result.content[i].resource.text.s :
                 i \in {j \in 1..Len(result.content) :
                          /\ "resource" \in DOMAIN result.content[j]
                          /\ "text" \in DOMAIN result.content[j].resource
                          /\ IsStr(result.content[j].resource.text)}}

\* the pods of a log document are trimmed: at most MaxPods pods, at most
\* MaxContainers containers in each, each container text within
\* PerContainerLimit characters plus the marker
LogsTrimmed(text) ==
    (JsonValid(text) /\ IsDict(JsonLoads(text))
                     /\ IsDict(DictGet(JsonLoads(text).kv, "logs"))) =>
        LET pods == DictGet(JsonLoads(text).kv, "logs").kv
        IN /\ Len(pods) <= MaxPods
           /\ \A p \in 1..Len(pods) :
                 IsDict(pods[p][2]) =>
                    /\ Len(pods[p][2].kv) <= MaxContainers
                    /\ \A c \in 1..Len(pods[p][2].kv) :
                          IsStr(pods[p][2].kv[c][2]) =>
                             TextLen(pods[p][2].kv[c][2].s) <= PerContainerLimit + MarkerLen

\* C21: the limiter bounds every text it returns. For every tool name and
\* payload, each block text and resource text of the limited result is at
\* most TextLimit characters plus the marker long, and in a log-fetch
\* result at most one pod and one container per pod are retained, each
\* container text at most PerContainerLimit characters plus the marker.
C21_LimitedTextsBounded ==
    (pure.f = "_limit_tool_payload" /\ pure.once.exc = "none") =>
        \A text \in LimitedTexts(pure.once.val) :
           /\ TextLen(text) <= TextLimit + MarkerLen
           /\ SimpleName(pure.tool_name) = Bare("get_logs") => LogsTrimmed(text)

\* the call_tool invocations of the run, by the loop or by the fallback
\* path, of a tool with one of the simple names, that returned a result
Succeeded(simple_names) ==
    {e \in BagToSet(calls) : SimpleName(e.name) \in simple_names /\ e.ok}

\* C22: the fallback summary lists only what was collected. It holds 'Log
\* excerpt collected.' only if a log-fetch call returned, 'Resource
\* description retrieved.' only if a describe call returned, and 'Recent
\* Kubernetes events recorded.' only if an events call returned; not when
\* the tool is unavailable or its call failed.
C22_SummaryListsCollected ==
    /\ HasSentence(run.result.summary, LogSentence)
          => Succeeded({Bare("get_logs")}) # {}
    /\ HasSentence(run.result.summary, ResourceSentence)
          => Succeeded({Bare("describe_deployment"), Bare("describe_pod")}) # {}
    /\ HasSentence(run.result.summary, EventsSentence)
          => Succeeded({Bare("get_events"), Bare("list_events")}) # {}

\* how many chat posts the fallback path made
FallbackPosts ==
    CopiesIn([by |-> "fallback", name |-> Bare("slack_post_message"), ok |-> TRUE], calls)
    + CopiesIn([by |-> "fallback", name |-> Bare("slack_post_message"), ok |-> FALSE], calls)

\* the fallback posts at most once and only when a channel is resolved, the
\* chat tool exists and the LLM path recorded no chat result; after a
\* failed post the run does not raise and the issue step is attempted
\* exactly when its own condition holds
C23_PostGuarded ==
    /\ FallbackPosts <= 1
    /\ FallbackPosts = 1 =>
          /\ cfg.channel # ""
          /\ has_tool(cfg.sessions, Bare("slack_post_message"))
          /\ run.llm_collected.slack_result = Null
    /\ (\E e \in FallbackCalls(Bare("slack_post_message")) : ~e.ok) =>
          /\ pc # "raised"
          /\ run.result.slack_result = Obj(<<>>)
          /\ pc = "returned" =>
                (FallbackCalls(Bare("create_issue")) # {}
                    <=> (/\ ~Truthy(LLMIssueUrl)
                         /\ cfg.github
                         /\ has_tool(cfg.sessions, Bare("create_issue"))))

\* the issue step and the return leave the chat result as it is
C23_ChatResultKept ==
    pc \in {"fb_issue", "fb_exit"} =>
        /\ run'.result.slack_result = run.result.slack_result
        /\ pc' # "raised"

\* C23: the chat post of the fallback path. It is made at most once per
\* run, and only if a notification channel is resolved, the chat tool
\* exists and the LLM path recorded no chat-post result; a failed post
\* never prevents the later issue-creation step; a failed issue creation
\* leaves the chat result already obtained in the returned record.
C23_ChatPostOnceAndIndependent ==
    [](C23_PostGuarded) /\ [][C23_ChatResultKept]_vars

\* the run returned with the chat result of a successful fallback post
\* although the later issue creation failed
C23_Witness ==
    /\ pc = "returned"
    /\ \E e \in FallbackCalls(Bare("slack_post_message")) : e.ok
    /\ \E e \in FallbackCalls(Bare("create_issue")) : ~e.ok
    /\ Truthy(run.result.slack_result)

\* the sessions whose list_tools succeeds, in their order
Listing(sessions, failing) ==
    LET RECURSIVE From(_)
        From(k) == IF k > Len(sessions) THEN <<>>
                   ELSE (IF k \in failing THEN <<>> ELSE <<sessions[k]>>) \o From(k + 1)
    IN From(1)

\* whatever sessions fail in list_tools, the catalog is the one the other
\* sessions give on their own, and it holds every allow-listed tool of theirs
C24_FailingSessionsSkipped ==
    pc = "llm_tools" =>
        \A failing \in SUBSET (1..Len(cfg.sessions)) :
           \E tools \in {_collect_tool_definitions(cfg.sessions, failing, cfg.allowed_tools)} :
              /\ tools = _collect_tool_definitions(Listing(cfg.sessions, failing), {},
                                                   cfg.allowed_tools)
              /\ \A k \in (1..Len(cfg.sessions)) \ failing :
                    \A i \in 1..Len(cfg.sessions[k].tools) :
                       cfg.sessions[k].tools[i] \in cfg.allowed_tools
                          => \E j \in 1..Len(tools) :
                                tools[j].name = cfg.sessions[k].tools[i]

\* an empty catalog: no chat call is ever made, no LLM-requested tool runs
C24_EmptyCatalogNoChat ==
    run.catalog = "empty" =>
        /\ chat.n = 0
        /\ LLMCalls = {}
        /\ pc \notin {"llm_tools", "llm_chat", "llm_exec"}

\* catalog building always ends: with an empty catalog the run goes on with
\* the first fallback step, otherwise with the first chat turn
C24_CatalogStep ==
    pc = "llm_tools" =>
        /\ run'.catalog = "empty" =>
              /\ pc' = "fb_logs"
              /\ chat' = chat /\ calls' = calls
              /\ \E failing \in SUBSET (1..Len(cfg.sessions)) :
                    _collect_tool_definitions(cfg.sessions, failing, cfg.allowed_tools) = <<>>
        /\ run'.catalog = "built" =>
              /\ pc' = "llm_chat"
              /\ \E failing \in SUBSET (1..Len(cfg.sessions)) :
                    _collect_tool_definitions(cfg.sessions, failing, cfg.allowed_tools) # <<>>
        /\ run'.catalog # "none"

\* C24: a session whose list_tools fails contributes no catalog entries and
\* does not stop catalog building: the allow-listed tools of every other
\* session are still in the catalog; when the catalog is empty the LLM path
\* makes no chat_with_tools call and the run continues with the fallback.
C24_ListToolsFailureContained ==
    [](C24_FailingSessionsSkipped /\ C24_EmptyCatalogNoChat) /\ [][C24_CatalogStep]_vars

\* sessions existed, list_tools failed in them, and the run returned from
\* the fallback path without any chat call
C24_Witness ==
    /\ pc = "returned"
    /\ cfg.llm_client
    /\ cfg.sessions # <<>>
    /\ run.catalog = "empty"
    /\ chat.n = 0
    /\ FallbackCalls(Bare("get_logs")) # {}

\* a chat turn that returned a response
TurnTaken == pc = "llm_chat" /\ chat'.n = chat.n + 1 /\ ~chat'.raised

\* a turn with tool calls appends exactly one assistant message, at the end
\* of the transcript; a turn without tool calls appends one exactly when its
\* text, which becomes the summary, is not empty
C25_TurnStep ==
    TurnTaken =>
        IF pc' = "llm_exec"
        THEN /\ chat'.appended = chat.appended + 1
             /\ Len(sess'.messages) = Len(sess.messages) + 1
             /\ SubSeq(sess'.messages, 1, Len(sess.messages)) = sess.messages
             /\ sess'.messages[Len(sess'.messages)].role = "assistant"
        ELSE chat'.appended
                = chat.appended + (IF TextLen(run'.llm_summary) > 0 THEN 1 ELSE 0)

\* the tool messages of a turn come after its assistant message: executing
\* a call appends tool messages only
C25_ExecStep ==
    pc = "llm_exec" =>
        /\ chat'.appended = chat.appended
        /\ pc' \in {"llm_exec", "llm_chat"} =>
              /\ SubSeq(sess'.messages, 1, Len(sess.messages)) = sess.messages
              /\ \A k \in (Len(sess.messages) + 1)..Len(sess'.messages) :
                    sess'.messages[k].role = "tool"

\* C25: an assistant message is appended only if it carries visible content
\* or tool-call requests: after a turn with empty content and no tool calls
\* the transcript is unchanged, and after every other turn exactly one
\* assistant message is appended before any tool message of that turn.
C25_AssistantMessageOnlyWithContent ==
    [][C25_TurnStep /\ C25_ExecStep]_vars

\* C26: every tool message of the transcript carries the identifier of the
\* tool call it answers and the simple (unqualified) name of the tool, also
\* when the LLM requested the tool by its server-qualified name and that
\* qualified call succeeded.
C26_ToolMessageIdAndSimpleName ==
    \A k \in 1..Len(sess.messages) :
       sess.messages[k].role = "tool" =>
          /\ \E j \in 1..(k - 1) :
                /\ sess.messages[j].role = "assistant"
                /\ \E i \in 1..Len(sess.messages[j].tool_calls) :
                      sess.messages[j].tool_calls[i].id = sess.messages[k].tool_call_id
          /\ sess.messages[k].name = SimpleName(sess.messages[k].name)

\* the LLM session raised
SessionFailed == run.llm_outcome = "raised"

\* C27: if the LLM session raises after it has executed tool calls, none of
\* the evidence it had collected reaches run_diagnostics: the run goes on
\* with empty LLM evidence and an empty summary, so that the fallback
\* fetches logs, resource and events and creates an issue whenever the
\* tool exists (and GitHub is configured), whatever the LLM path had
\* already invoked successfully.
C27_FailedSessionLosesEvidence ==
    SessionFailed =>
        /\ run.llm_collected = EmptyCollected
        /\ TextLen(run.llm_summary) = 0
        /\ pc \in {"fb_resource", "fb_events", "fb_assemble", "fb_slack", "fb_issue",
                   "fb_exit", "returned"} =>
              (FallbackCalls(Bare("get_logs")) # {}
                  <=> has_tool(cfg.sessions, Bare("get_logs")))
        /\ pc = "returned" =>
              /\ FallbackCalls(Bare("describe_deployment")) # {}
                    <=> has_tool(cfg.sessions, Bare("describe_deployment"))
              /\ FallbackCalls(Bare("get_events")) # {}
                    <=> has_tool(cfg.sessions, Bare("get_events"))
              /\ FallbackCalls(Bare("slack_post_message")) # {}
                    <=> (cfg.channel # "" /\ has_tool(cfg.sessions, Bare("slack_post_message")))
              /\ FallbackCalls(Bare("create_issue")) # {}
                    <=> (cfg.github /\ has_tool(cfg.sessions, Bare("create_issue")))

\* the session fetched logs and created an issue, then raised; the fallback
\* fetched logs and created an issue again
C27_Witness ==
    /\ pc = "returned"
    /\ SessionFailed
    /\ chat.n = 2
    /\ \E e \in LLMCalls : SimpleName(e.name) = Bare("get_logs") /\ e.ok
    /\ \E e \in LLMCalls : e.name = Bare("create_issue") /\ e.ok
    /\ \E e \in FallbackCalls(Bare("get_logs")) : e.ok
    /\ \E e \in FallbackCalls(Bare("create_issue")) : e.ok

\* the LLM requested tools of these simple names and every such call failed
OnlyFailed(simple_names) ==
    /\ \E e \in LLMCalls : SimpleName(e.name) \in simple_names
    /\ \A e \in LLMCalls : SimpleName(e.name) \in simple_names => ~e.ok

\* the text of an error-shaped result synthesized for a failed call
FailureText(text) == text.src.t = "error"

\* C28: the aggregator ignores is_error. When the LLM session returns and
\* its log-fetch (describe, events) calls all failed, the failure text of
\* the synthesized error result is the evidence collected, it becomes
\* log_snippet (resource_description, events_summary) of the result, and
\* the corresponding fallback fetch is not invoked.
C28_ErrorResultsAreEvidence ==
    run.llm_outcome = "returned" =>
        /\ OnlyFailed({Bare("get_logs")}) =>
              /\ IsStr(run.llm_collected.logs) /\ FailureText(run.llm_collected.logs.s)
              /\ FallbackCalls(Bare("get_logs")) = {}
              /\ pc = "returned" => FailureText(run.result.log_snippet)
        /\ OnlyFailed({Bare("describe_deployment"), Bare("describe_pod")}) =>
              /\ IsStr(run.llm_collected.resource)
              /\ FailureText(run.llm_collected.resource.s)
              /\ FallbackCalls(DescribeTool(cfg.resource_type)) = {}
              /\ pc = "returned" => run.result.resource_description = run.llm_collected.resource
        /\ OnlyFailed({Bare("get_events"), Bare("list_events")}) =>
              /\ IsStr(run.llm_collected.events) /\ FailureText(run.llm_collected.events.s)
              /\ FallbackCalls(Bare("get_events")) = {}
              /\ pc = "returned" => run.result.events_summary = run.llm_collected.events

\* the session's only log fetch failed although the tool exists; the run
\* returned the failure text as its log snippet and the fallback fetched
\* no logs
C28_Witness ==
    /\ pc = "returned"
    /\ run.llm_outcome = "returned"
    /\ has_tool(cfg.sessions, Bare("get_logs"))
    /\ OnlyFailed({Bare("get_logs")})
    /\ FailureText(run.result.log_snippet)
    /\ FallbackCalls(Bare("get_logs")) = {}

\* C29: every result record returned by run_diagnostics has a non-empty
\* summary: the final text of the LLM session when that is not empty,
\* otherwise the templated fallback summary, which is not empty whatever
\* evidence was collected.
C29_SummaryNeverEmpty ==
    pc = "returned" =>
        /\ TextLen(run.result.summary) > 0
        /\ IF TextLen(run.llm_summary) > 0
           THEN run.result.summary = run.llm_summary
           ELSE run.result.summary
                   = _fallback_summary(service, cfg.namespace, cfg.resource_type,
                                       run.result.log_snippet,
                                       run.result.resource_description,
                                       run.result.events_summary)

\* a run without LLM and without any tool returned the templated summary
C29_Witness ==
    /\ pc = "returned"
    /\ ~cfg.llm_client
    /\ cfg.sessions = <<>>
    /\ BagToSet(calls) = {}
    /\ run.result.summary.src.t = "summary"
    /\ TextLen(run.result.summary) > 0

====
